---- MODULE Spec2Model ----
(***************************************************************************)
(* Session orchestration subsystem of dreamal (src-tauri/src).             *)
(*                                                                         *)
(* The model covers the session registry (claude_session/manager.rs,       *)
(* claude_session/types.rs), the command handlers spawn_claude_session and *)
(* cancel_session (claude_session/commands.rs), the working-copy directory *)
(* operations (git_ops/clone.rs, git_ops/cleanup.rs) and the process kill  *)
(* (claude_session/process.rs).  Every registry operation takes the mutex  *)
(* for the length of that one operation, so each is one atomic step; the   *)
(* steps of a handler and of a session thread interleave freely.           *)
(*                                                                         *)
(* claude_session/orchestrator.rs is not part of the sources at hand: the  *)
(* pipeline run_full_session is modelled from section 4.5 of the design    *)
(* (isolate, branch, spawn agent, wait, publish), first failure aborting.  *)
(***************************************************************************)
EXTENDS Integers, Sequences, FiniteSets, TLC

(* ---------------- bounds ---------------- *)
\* number of spawn_claude_session calls issued by the caller
MaxCalls == 2
\* number of distinct values Uuid::new_v4 can return
MaxId == 2
\* number of cancel_session calls issued by the caller
MaxCancels == 1

Calls == 1..MaxCalls
Ids == 1..MaxId
Cancels == 1..MaxCancels
\* the users of the registry mutex: each call's background thread, and one
\* caller each of get_session_status and list_claude_sessions
LockThreads == {<<"thread", c>> : c \in Calls}
LockQueries == {<<"get_session_info">>, <<"list_sessions">>}
\* and the command handler that calls create_session
LockCreators == {<<"create_session">>}
LockUsers == LockThreads \cup LockQueries \cup LockCreators

\* application processes that can be started on one machine
MaxApps == 2
Apps == 1..MaxApps

(* ---------------- Option<T> ---------------- *)
None == <<>>
Some(x) == <<x>>

(* ---------------- values ---------------- *)
Initializing == "initializing"
Working == "working"
Completed == "completed"
Error == "error"
SessionStatus == {Initializing, Working, Completed, Error}

\* message written by cancel_session
CancelMessage == "Session cancelled by user"
\* e.to_string() of a failed pipeline: one message per failing step
PipelineErrors == {"clone failed", "branch failed", "spawn failed",
                   "agent failed", "publish failed"}

\* caller inputs of spawn_claude_session
GitDirs == {"/repo"}
Instructions == {"Add X"}

\* the pull-request URL the hosting API returns for the pipeline of call c
PrUrl(c) == <<"pull", c>>
\* the OS process id of the agent process spawned by the pipeline of call c;
\* process ids of spawned children are positive
AgentPid(c) == c
\* the OS process id of the application itself: positive, no agent's pid
AppPid == MaxCalls + 1
\* the working-copy path of a session id (get_session_dir)
get_session_dir(id) == <<"temp-checkouts", "session-", id>>

VARIABLES
    platform,   \* "unix" | "windows": which cfg branch of kill_process is built
    appAlive,   \* the application process is running
    sessions,   \* SessionManager.sessions: HashMap<String, Session>
    dirs,       \* session ids whose directory session-<id> exists on disk
    hpc,        \* per call: position of spawn_claude_session
    cid,        \* per call: the session_id drawn by the call (None before)
    tpc,        \* per call: position of the background thread
    terr,       \* per call: Err(e) of run_full_session, as its message
    agent,      \* per call: state of the agent OS process
    kpc,        \* per cancel handler: position of cancel_session
    kid,        \* per cancel handler: session_id argument
    kpid,       \* per cancel handler: local process_id read from the registry
    lastWrite,  \* history: per session id, who wrote the record last
    tlog,       \* history: per call, outcome steps the thread has performed
    killed      \* history: processes terminated by a cancel's kill_process

\* State of the component models.  Each component is exercised on its own by
\* a specification of its own (SpecReg, SpecLock, SpecPipe, SpecFs); the
\* session workflow (Spec) leaves these variables alone.
VARIABLES
    clock,      \* SystemTime::now() in seconds, as read by Session::new
    reg,        \* SpecReg: a SessionManager's map, driven operation by operation
    ret,        \* SpecReg: the last operation called on reg and what it returned
    lock,       \* SpecLock: holder of the Mutex around the sessions map
    lpc,        \* SpecLock: per user of the registry, its position
    lpoison,    \* SpecLock: the mutex is poisoned (a holder panicked)
    llog,       \* SpecLock: the users whose operation changed the map, in order
    script,     \* SpecPipe: the writes the child process has still to make
    outbuf,     \* SpecPipe: units held by the stdout pipe
    errbuf,     \* SpecPipe: units held by the stderr pipe
    cpc,        \* SpecPipe: the child process
    wpc,        \* SpecPipe: position of wait_for_process
    root,       \* SpecFs: the temp-checkouts directory exists
    entries,    \* SpecFs: the entries of temp-checkouts, by name
    fsret,      \* SpecFs: the last directory operation and what it returned
    aphase,     \* SpecApp: per application process, "off" or "running"
    areg,       \* SpecApp: per application process, its registry (id -> status)
    bdesc,      \* SpecBranch: the description given to generate_branch_name
    bnow,       \* SpecBranch: SystemTime::now(), in ticks finer than a second
    bcalls,     \* SpecBranch: the calls made so far and the names they returned
    cin,        \* SpecCompose: the three inputs of compose_instructions
    cout,       \* SpecCompose: the results of the calls made so far
    purl,       \* SpecParse: the remote URL given to parse_github_remote
    pres,       \* SpecParse: what parse_github_remote returned (None before)
    tin,        \* SpecToken: the token sources, the remote and the API's answer
    ttok,       \* SpecToken: what get_github_token returned (None before)
    tout,       \* SpecToken: what create_pull_request returned (None before)
    tsent,      \* SpecToken: the bearer tokens of the requests sent
    gin,        \* SpecCommit: which git steps fail, and whether files changed
    gpc,        \* SpecCommit: the position of commit_and_push
    glog,       \* SpecCommit: the steps run so far, in order
    grepo,      \* SpecCommit: what is staged, committed and pushed
    gres,       \* SpecCommit: what commit_and_push returned (None before)
    pin,        \* SpecPersist: the SessionInfo to save, and the directory's state
    pfiles,     \* SpecPersist: the content of each record file (None: no file)
    pret        \* SpecPersist: the last call and its result

mainvars == <<platform, appAlive, sessions, dirs, hpc, cid, tpc, terr, agent,
              kpc, kid, kpid, lastWrite, tlog, killed>>
regvars == <<clock, reg, ret>>
lockvars == <<lock, lpc, lpoison, llog>>
pipevars == <<script, outbuf, errbuf, cpc, wpc>>
fsvars == <<root, entries, fsret>>
appvars == <<aphase, areg>>
branchvars == <<bdesc, bnow, bcalls>>
composevars == <<cin, cout>>
parsevars == <<purl, pres>>
tokenvars == <<tin, ttok, tout, tsent>>
commitvars == <<gin, gpc, glog, grepo, gres>>
persistvars == <<pin, pfiles, pret>>
extvars == <<appvars, branchvars, composevars, parsevars, tokenvars,
             commitvars, persistvars>>
subvars == <<regvars, lockvars, pipevars, fsvars, extvars>>

vars == <<mainvars, subvars>>

(* ---------------- types.rs: Session ---------------- *)
\* Session::new starting the record with a process id
Session_new_with_pid(id, git_directory, instructions, work_dir, branch_name) ==
    [id |-> id, status |-> Initializing, pr_url |-> None,
     error_message |-> None, git_directory |-> git_directory,
     instructions |-> instructions, created_at |-> clock,
     work_dir |-> work_dir, branch_name |-> branch_name,
     process_id |-> Some(0)]

Session_new(id, git_directory, instructions, work_dir, branch_name) ==
    [id |-> id, status |-> Initializing, pr_url |-> None,
     error_message |-> None, git_directory |-> git_directory,
     instructions |-> instructions, created_at |-> clock,
     work_dir |-> work_dir, branch_name |-> branch_name,
     process_id |-> None]

\* the `info` part of a Session (s.info.clone())
SessionInfo(s) ==
    [id |-> s.id, status |-> s.status, pr_url |-> s.pr_url,
     error_message |-> s.error_message, git_directory |-> s.git_directory,
     instructions |-> s.instructions, created_at |-> s.created_at]

\* set_working stamping the record with the time of the call
Session_set_working_restamps(s, process_id) ==
    [s EXCEPT !.status = Working, !.process_id = Some(process_id),
              !.created_at = clock]

Session_set_working(s, process_id) ==
    [s EXCEPT !.status = Working, !.process_id = Some(process_id)]

\* set_completed forgetting to clear process_id
Session_set_completed_keeps_pid(s, pr_url) ==
    [s EXCEPT !.status = Completed, !.pr_url = Some(pr_url)]

Session_set_completed(s, pr_url) ==
    [s EXCEPT !.status = Completed, !.pr_url = Some(pr_url),
              !.process_id = None]

\* set_error forgetting to clear process_id
Session_set_error_keeps_pid(s, message) ==
    [s EXCEPT !.status = Error, !.error_message = Some(message)]

Session_set_error(s, message) ==
    [s EXCEPT !.status = Error, !.error_message = Some(message),
              !.process_id = None]

(* ---------------- manager.rs: SessionManager ---------------- *)
\* each operation maps the map `ss` to [res, sessions]; res is "Ok" or the
\* SessionError variant
\* create_session without the contains_key check: insert overwrites
create_session_overwrites(ss, id, git_directory, instructions, work_dir, branch_name) ==
    [res |-> "Ok",
     sessions |-> [i \in DOMAIN ss \cup {id} |->
                     IF i = id
                     THEN Session_new(id, git_directory, instructions,
                                      work_dir, branch_name)
                     ELSE ss[i]],
     value |-> Some(SessionInfo(Session_new(id, git_directory, instructions,
                                            work_dir, branch_name)))]

create_session(ss, id, git_directory, instructions, work_dir, branch_name) ==
    IF id \in DOMAIN ss
    THEN [res |-> "AlreadyExists", sessions |-> ss, value |-> None]
    ELSE [res |-> "Ok",
          sessions |-> [i \in DOMAIN ss \cup {id} |->
                          IF i = id
                          THEN Session_new(id, git_directory, instructions,
                                           work_dir, branch_name)
                          ELSE ss[i]],
          value |-> Some(SessionInfo(Session_new(id, git_directory,
                                                 instructions, work_dir,
                                                 branch_name)))]

get_session_info(ss, id) ==
    IF id \notin DOMAIN ss
    THEN [res |-> "NotFound", value |-> None]
    ELSE [res |-> "Ok", value |-> Some(SessionInfo(ss[id]))]

\* set_working inserting a record for an unknown id
set_working_upserts(ss, id, process_id) ==
    [res |-> "Ok",
     sessions |-> [i \in DOMAIN ss \cup {id} |->
                     IF i = id
                     THEN Session_set_working(
                              IF id \in DOMAIN ss THEN ss[id]
                              ELSE Session_new(id, "", "", "", ""),
                              process_id)
                     ELSE ss[i]]]

set_working(ss, id, process_id) ==
    IF id \notin DOMAIN ss
    THEN [res |-> "NotFound", sessions |-> ss]
    ELSE [res |-> "Ok",
          sessions |-> [ss EXCEPT ![id] = Session_set_working(@, process_id)]]

\* set_completed dropping the record once it is finished
set_completed_expires(ss, id, pr_url) ==
    IF id \notin DOMAIN ss
    THEN [res |-> "NotFound", sessions |-> ss]
    ELSE [res |-> "Ok", sessions |-> [i \in DOMAIN ss \ {id} |-> ss[i]]]

set_completed(ss, id, pr_url) ==
    IF id \notin DOMAIN ss
    THEN [res |-> "NotFound", sessions |-> ss]
    ELSE [res |-> "Ok",
          sessions |-> [ss EXCEPT ![id] = Session_set_completed(@, pr_url)]]

set_error(ss, id, message) ==
    IF id \notin DOMAIN ss
    THEN [res |-> "NotFound", sessions |-> ss]
    ELSE [res |-> "Ok",
          sessions |-> [ss EXCEPT ![id] = Session_set_error(@, message)]]

\* get_process_id answering Ok(None) for an id that is absent
get_process_id_lenient(ss, id) ==
    IF id \notin DOMAIN ss
    THEN [res |-> "Ok", value |-> None]
    ELSE [res |-> "Ok", value |-> ss[id].process_id]

get_process_id(ss, id) ==
    IF id \notin DOMAIN ss
    THEN [res |-> "NotFound", value |-> None]
    ELSE [res |-> "Ok", value |-> ss[id].process_id]

get_work_dir(ss, id) ==
    IF id \notin DOMAIN ss
    THEN [res |-> "NotFound", value |-> None]
    ELSE [res |-> "Ok", value |-> Some(ss[id].work_dir)]

get_branch_name(ss, id) ==
    IF id \notin DOMAIN ss
    THEN [res |-> "NotFound", value |-> None]
    ELSE [res |-> "Ok", value |-> Some(ss[id].branch_name)]

\* remove_session returning the record without deleting it
remove_session_keeps(ss, id) ==
    IF id \notin DOMAIN ss
    THEN [res |-> "NotFound", sessions |-> ss, value |-> None]
    ELSE [res |-> "Ok", sessions |-> ss, value |-> Some(ss[id])]

remove_session(ss, id) ==
    IF id \notin DOMAIN ss
    THEN [res |-> "NotFound", sessions |-> ss, value |-> None]
    ELSE [res |-> "Ok",
          sessions |-> [i \in DOMAIN ss \ {id} |-> ss[i]],
          value |-> Some(ss[id])]

\* the orders in which a HashMap with key set S can be iterated
Orders(S) ==
    {o \in [1..Cardinality(S) -> S] : \A a, b \in 1..Cardinality(S) :
                                         a # b => o[a] # o[b]}

\* the filter keeping only Working
IsActive_working_only(s) == s.status = Working

IsActive(s) == s.status = Initializing \/ s.status = Working

\* list_sessions: sessions.values().map(|s| s.info.clone()).collect(); the
\* possible results, one per iteration order
list_sessions(ss) ==
    {[n \in 1..Len(o) |-> SessionInfo(ss[o[n]])] : o \in Orders(DOMAIN ss)}

\* get_active_sessions: the same iteration, filtered on the status
get_active_sessions(ss) ==
    {LET kept == SelectSeq([n \in 1..Len(o) |-> ss[o[n]]], IsActive)
     IN [n \in 1..Len(kept) |-> SessionInfo(kept[n])] : o \in Orders(DOMAIN ss)}

(* ---------------- process.rs: kill_process ---------------- *)
\* The processes of the application's process group: the application itself
\* and every running agent child (Command does not change the group).
ProcessGroup ==
    {AppPid} \cup {AgentPid(c) : c \in {x \in Calls : agent[x] = "running"}}

\* The processes that `kill -9 <pid>` (unix) or `taskkill /F /PID <pid>`
\* (windows) terminates.  On unix pid 0 addresses every process of the
\* caller's process group; on windows pid 0 is the idle process and taskkill
\* refuses it.
KillTargets(pid) ==
    IF pid = 0
    THEN IF platform = "unix" THEN ProcessGroup ELSE {}
    ELSE {p \in ProcessGroup : p = pid}

(* ---------------- initial state ---------------- *)
\* a fresh SessionManager (SessionManager::new), no operation called yet
RegInit ==
    /\ clock = 0
    /\ reg = <<>>
    /\ ret = [tick |-> 0, op |-> "none", id |-> None, res |-> "Ok",
              value |-> None]

\* the mutex is free; no thread and no query has started
LockInit ==
    /\ lock = None
    /\ lpc = [u \in LockUsers |-> "start"]
    /\ lpoison = FALSE
    /\ llog = <<>>

\* no child process yet
PipeInit ==
    /\ script = <<>>
    /\ outbuf = 0
    /\ errbuf = 0
    /\ cpc = "none"
    /\ wpc = "none"

\* the application has never run: no temp-checkouts directory
FsInit ==
    /\ root = FALSE
    /\ entries = <<>>
    /\ fsret = [tick |-> 0, op |-> "none", arg |-> None, res |-> "Ok",
                value |-> None]

AppInit ==
    /\ aphase = [a \in Apps |-> "off"]
    /\ areg = [a \in Apps |-> <<>>]

\* SpecBranch at rest: no description, no call
BranchIdle ==
    /\ bdesc = <<>>
    /\ bnow = 0
    /\ bcalls = <<>>

\* SpecCompose at rest
ComposeIdle ==
    /\ cin = [user |-> <<>>, additional |-> None, file |-> None]
    /\ cout = <<>>

\* SpecParse at rest
ParseIdle ==
    /\ purl = <<>>
    /\ pres = None

\* SpecToken at rest
TokenIdle ==
    /\ tin = <<>>
    /\ ttok = None
    /\ tout = None
    /\ tsent = <<>>

\* SpecPersist at rest
PersistIdle ==
    /\ pin = <<>>
    /\ pfiles = <<>>
    /\ pret = <<>>

\* SpecCommit at rest
CommitIdle ==
    /\ gin = <<>>
    /\ gpc = "idle"
    /\ glog = <<>>
    /\ grepo = <<>>
    /\ gres = None

MainInit ==
    /\ platform \in {"unix", "windows"}
    /\ appAlive = TRUE
    /\ sessions = <<>>
    /\ dirs = {}
    /\ hpc = [c \in Calls |-> "idle"]
    /\ cid = [c \in Calls |-> None]
    /\ tpc = [c \in Calls |-> "none"]
    /\ terr = [c \in Calls |-> None]
    /\ agent = [c \in Calls |-> "none"]
    /\ kpc = [k \in Cancels |-> "idle"]
    /\ kid = [k \in Cancels |-> None]
    /\ kpid = [k \in Cancels |-> None]
    /\ lastWrite = <<>>
    /\ tlog = [c \in Calls |-> <<>>]
    /\ killed = {}

Init ==
    /\ MainInit
    /\ RegInit
    /\ LockInit
    /\ PipeInit
    /\ FsInit
    /\ AppInit
    /\ BranchIdle
    /\ ComposeIdle
    /\ ParseIdle
    /\ TokenIdle
    /\ CommitIdle
    /\ PersistIdle

(* ---------------- git_ops: working-copy directories ---------------- *)
\* clone_to_temp(source, id): the outcomes [res, dirs] it can have when the
\* set of existing session directories is ds.  The directory is created by
\* copy_dir_recursive before the copy and the repository check can fail.
clone_to_temp(ds, id) ==
    IF id \in ds
    THEN {[res |-> "SessionExists", dirs |-> ds]}
    ELSE {[res |-> "Ok", dirs |-> ds \cup {id}],
          [res |-> "IoError", dirs |-> ds],
          [res |-> "IoError", dirs |-> ds \cup {id}],
          [res |-> "GitError", dirs |-> ds \cup {id}]}

\* cleanup_session(id): the outcomes [res, dirs]; remove_dir_all can fail
\* and leave the directory in place.
cleanup_session(ds, id) ==
    IF id \in ds
    THEN {[res |-> "Ok", dirs |-> ds \ {id}],
          [res |-> "IoError", dirs |-> ds]}
    ELSE {[res |-> "Ok", dirs |-> ds]}

(* ---------------- history helpers ---------------- *)
Wrote(lw, id, who) ==
    [i \in DOMAIN lw \cup {id} |-> IF i = id THEN who ELSE lw[i]]

(* ---------------- commands.rs: spawn_claude_session ---------------- *)
\* lines 23-38: draw the id, create the registry record; the branch name
\* given is String::new(), the string of no characters
SpawnCreate(c) ==
    /\ appAlive
    /\ hpc[c] = "idle"
    /\ \E id \in Ids, gd \in GitDirs, ins \in Instructions :
         LET r == create_session(sessions, id, gd, ins, get_session_dir(id),
                                 <<>>)
         IN /\ cid' = [cid EXCEPT ![c] = Some(id)]
            /\ sessions' = r.sessions
            /\ hpc' = [hpc EXCEPT ![c] = IF r.res = "Ok" THEN "created" ELSE "err"]
            /\ lastWrite' = IF r.res = "Ok"
                            THEN Wrote(lastWrite, id, "create")
                            ELSE lastWrite
    /\ UNCHANGED <<subvars, platform, appAlive, dirs, tpc, terr, agent, kpc, kid, kpid,
                   tlog, killed>>

\* lines 40-62: std::thread::spawn
SpawnThread(c) ==
    /\ appAlive
    /\ hpc[c] = "created"
    /\ tpc' = [tpc EXCEPT ![c] = "clone"]
    /\ hpc' = [hpc EXCEPT ![c] = "spawned"]
    /\ UNCHANGED <<subvars, platform, appAlive, sessions, dirs, cid, terr, agent, kpc,
                   kid, kpid, lastWrite, tlog, killed>>

\* lines 64-69: set_working(&session_id, 0), then Ok(session_id)
SpawnSetWorking(c) ==
    /\ appAlive
    /\ hpc[c] = "spawned"
    /\ LET id == cid[c][1]
           r == set_working(sessions, id, 0)
       IN /\ sessions' = r.sessions
          /\ hpc' = [hpc EXCEPT ![c] = IF r.res = "Ok" THEN "ok" ELSE "err"]
          /\ lastWrite' = IF r.res = "Ok"
                          THEN Wrote(lastWrite, id, "handler")
                          ELSE lastWrite
    /\ UNCHANGED <<subvars, platform, appAlive, dirs, cid, tpc, terr, agent, kpc, kid,
                   kpid, tlog, killed>>

(* ---------------- orchestrator: run_full_session ---------------- *)
\* a pipeline step fails: run_full_session returns Err(e)
Fail(c, msg) ==
    /\ tpc' = [tpc EXCEPT ![c] = "set_error"]
    /\ terr' = [terr EXCEPT ![c] = Some(msg)]

\* step 2: isolate the source repository into the session working copy
ThreadClone(c) ==
    /\ appAlive
    /\ tpc[c] = "clone"
    /\ \E o \in clone_to_temp(dirs, cid[c][1]) :
         /\ dirs' = o.dirs
         /\ IF o.res = "Ok"
            THEN tpc' = [tpc EXCEPT ![c] = "branch"] /\ terr' = terr
            ELSE Fail(c, "clone failed")
    /\ UNCHANGED <<subvars, platform, appAlive, sessions, hpc, cid, agent, kpc, kid,
                   kpid, lastWrite, tlog, killed>>

\* step 3: create and check out the feature branch in the working copy
ThreadBranch(c) ==
    /\ appAlive
    /\ tpc[c] = "branch"
    /\ \/ /\ cid[c][1] \in dirs
          /\ tpc' = [tpc EXCEPT ![c] = "agent"]
          /\ terr' = terr
       \/ Fail(c, "branch failed")
    /\ UNCHANGED <<subvars, platform, appAlive, sessions, dirs, hpc, cid, agent, kpc,
                   kid, kpid, lastWrite, tlog, killed>>

\* step 4: spawn the agent process in the working copy
ThreadSpawnAgent(c) ==
    /\ appAlive
    /\ tpc[c] = "agent"
    /\ \/ /\ cid[c][1] \in dirs
          /\ agent' = [agent EXCEPT ![c] = "running"]
          /\ tpc' = [tpc EXCEPT ![c] = "wait"]
          /\ terr' = terr
       \/ /\ Fail(c, "spawn failed")
          /\ agent' = agent
    /\ UNCHANGED <<subvars, platform, appAlive, sessions, dirs, hpc, cid, kpc, kid,
                   kpid, lastWrite, tlog, killed>>

\* the agent process exits by itself, with status zero or not
AgentExit(c) ==
    /\ agent[c] = "running"
    /\ \E st \in {"exited_ok", "exited_fail"} :
         agent' = [agent EXCEPT ![c] = st]
    /\ UNCHANGED <<subvars, platform, appAlive, sessions, dirs, hpc, cid, tpc, terr,
                   kpc, kid, kpid, lastWrite, tlog, killed>>

\* step 5: wait for the agent; a non-zero exit (also a kill) is a failure
ThreadWait(c) ==
    /\ appAlive
    /\ tpc[c] = "wait"
    /\ agent[c] # "running"
    /\ IF agent[c] = "exited_ok"
       THEN tpc' = [tpc EXCEPT ![c] = "publish"] /\ terr' = terr
       ELSE Fail(c, "agent failed")
    \* child.wait() reaps the process
    /\ agent' = [agent EXCEPT ![c] = "reaped"]
    /\ UNCHANGED <<subvars, platform, appAlive, sessions, dirs, hpc, cid, kpc,
                   kid, kpid, lastWrite, tlog, killed>>

\* step 6: commit_and_push, then create_pull_request
ThreadPublish(c) ==
    /\ appAlive
    /\ tpc[c] = "publish"
    /\ \/ /\ cid[c][1] \in dirs
          /\ tpc' = [tpc EXCEPT ![c] = "set_completed"]
          /\ terr' = terr
       \/ Fail(c, "publish failed")
    /\ UNCHANGED <<subvars, platform, appAlive, sessions, dirs, hpc, cid, agent, kpc,
                   kid, kpid, lastWrite, tlog, killed>>

(* ---------------- commands.rs: the thread's outcome ---------------- *)
\* lines 54-56: Ok(result) => set_completed(id, result.pr_url), result ignored
ThreadSetCompleted(c) ==
    /\ appAlive
    /\ tpc[c] = "set_completed"
    /\ LET id == cid[c][1]
           r == set_completed(sessions, id, PrUrl(c))
       IN /\ sessions' = r.sessions
          /\ lastWrite' = IF r.res = "Ok"
                          THEN Wrote(lastWrite, id, "thread")
                          ELSE lastWrite
    /\ tpc' = [tpc EXCEPT ![c] = "done"]
    /\ tlog' = [tlog EXCEPT ![c] = Append(@, "set_completed")]
    /\ UNCHANGED <<subvars, platform, appAlive, dirs, hpc, cid, terr, agent, kpc, kid,
                   kpid, killed>>

\* the Err branch going straight to the cleanup, without set_error
ThreadSetError_skipped(c) ==
    /\ appAlive
    /\ tpc[c] = "set_error"
    /\ tpc' = [tpc EXCEPT ![c] = "cleanup"]
    /\ terr' = [terr EXCEPT ![c] = None]
    /\ UNCHANGED <<subvars, platform, appAlive, sessions, dirs, hpc, cid, agent, kpc,
                   kid, kpid, lastWrite, tlog, killed>>

\* line 58: Err(e) => set_error(id, e.to_string()), result ignored
ThreadSetError(c) ==
    /\ appAlive
    /\ tpc[c] = "set_error"
    /\ LET id == cid[c][1]
           r == set_error(sessions, id, terr[c][1])
       IN /\ sessions' = r.sessions
          /\ lastWrite' = IF r.res = "Ok"
                          THEN Wrote(lastWrite, id, "thread")
                          ELSE lastWrite
    /\ tpc' = [tpc EXCEPT ![c] = "cleanup"]
    \* e is consumed by the call
    /\ terr' = [terr EXCEPT ![c] = None]
    /\ tlog' = [tlog EXCEPT ![c] = Append(@, "set_error")]
    /\ UNCHANGED <<subvars, platform, appAlive, dirs, hpc, cid, agent, kpc, kid,
                   kpid, killed>>

\* the Err branch escalating a cleanup failure into the registry
ThreadCleanup_escalates(c) ==
    /\ appAlive
    /\ tpc[c] = "cleanup"
    /\ \E o \in cleanup_session(dirs, cid[c][1]) :
         /\ dirs' = o.dirs
         /\ tlog' = [tlog EXCEPT ![c] = Append(@, IF o.res = "Ok"
                                                  THEN "cleanup"
                                                  ELSE "cleanup failed")]
         /\ sessions' = IF o.res = "Ok"
                        THEN sessions
                        ELSE set_error(sessions, cid[c][1], "IO error").sessions
    /\ tpc' = [tpc EXCEPT ![c] = "done"]
    /\ UNCHANGED <<subvars, platform, appAlive, hpc, cid, terr, agent, kpc,
                   kid, kpid, lastWrite, killed>>

\* line 59: let _ = cleanup_session(id): the result is dropped
ThreadCleanup(c) ==
    /\ appAlive
    /\ tpc[c] = "cleanup"
    /\ \E o \in cleanup_session(dirs, cid[c][1]) :
         /\ dirs' = o.dirs
         /\ tlog' = [tlog EXCEPT ![c] = Append(@, IF o.res = "Ok"
                                                  THEN "cleanup"
                                                  ELSE "cleanup failed")]
    /\ tpc' = [tpc EXCEPT ![c] = "done"]
    /\ UNCHANGED <<subvars, platform, appAlive, sessions, hpc, cid, terr, agent, kpc,
                   kid, kpid, lastWrite, killed>>

(* ---------------- commands.rs: cancel_session ---------------- *)
\* lines 85-88: get_process_id(&session_id)?
CancelRead(k) ==
    /\ appAlive
    /\ kpc[k] = "idle"
    /\ \E id \in Ids :
         LET r == get_process_id(sessions, id)
         IN /\ kid' = [kid EXCEPT ![k] = Some(id)]
            /\ kpid' = [kpid EXCEPT ![k] = r.value]
            /\ kpc' = [kpc EXCEPT ![k] = IF r.res = "Ok" THEN "kill" ELSE "err"]
    /\ UNCHANGED <<subvars, platform, appAlive, sessions, dirs, hpc, cid, tpc, terr,
                   agent, lastWrite, tlog, killed>>

\* lines 90-92: if let Some(pid) = process_id { kill_process(pid)? }
CancelKill(k) ==
    /\ appAlive
    /\ kpc[k] = "kill"
    /\ \/ /\ kpid[k] = None
          /\ kpc' = [kpc EXCEPT ![k] = "cleanup"]
          /\ UNCHANGED <<appAlive, agent, killed>>
       \/ /\ kpid[k] # None
          /\ LET T == KillTargets(kpid[k][1])
             IN /\ agent' = [c \in Calls |->
                               IF agent[c] = "running" /\ AgentPid(c) \in T
                               THEN "killed" ELSE agent[c]]
                /\ appAlive' = (AppPid \notin T)
                /\ killed' = killed \cup
                               {[by |-> kid[k][1], victim |-> p] : p \in T}
          /\ kpc' = [kpc EXCEPT ![k] = "cleanup"]
       \/ /\ kpid[k] # None
          \* the kill command could not be run: Err(IoError)
          /\ kpc' = [kpc EXCEPT ![k] = "err"]
          /\ UNCHANGED <<appAlive, agent, killed>>
    /\ UNCHANGED <<subvars, platform, sessions, dirs, hpc, cid, tpc, terr, kid, kpid,
                   lastWrite, tlog>>

\* line 94: cleanup_session(&session_id)?
CancelCleanup(k) ==
    /\ appAlive
    /\ kpc[k] = "cleanup"
    /\ \E o \in cleanup_session(dirs, kid[k][1]) :
         /\ dirs' = o.dirs
         /\ kpc' = [kpc EXCEPT ![k] = IF o.res = "Ok" THEN "set_error" ELSE "err"]
    /\ UNCHANGED <<subvars, platform, appAlive, sessions, hpc, cid, tpc, terr, agent,
                   kid, kpid, lastWrite, tlog, killed>>

\* lines 96-101: set_error(&session_id, "Session cancelled by user")?; Ok(())
CancelSetError(k) ==
    /\ appAlive
    /\ kpc[k] = "set_error"
    /\ LET id == kid[k][1]
           r == set_error(sessions, id, CancelMessage)
       IN /\ sessions' = r.sessions
          /\ kpc' = [kpc EXCEPT ![k] = IF r.res = "Ok" THEN "ok" ELSE "err"]
          /\ lastWrite' = IF r.res = "Ok"
                          THEN Wrote(lastWrite, id, "cancel")
                          ELSE lastWrite
    /\ UNCHANGED <<subvars, platform, appAlive, dirs, hpc, cid, tpc, terr, agent, kid,
                   kpid, tlog, killed>>

(* ---------------- SpecReg: the registry, operation by operation -------- *)
\* arguments the operations are called with
RegPids == {0, 4711}
RegUrls == {"https://github.com/o/r/pull/1"}
RegMessages == {"Something went wrong", CancelMessage}
\* last second the clock reaches
MaxClock == 1

NotReg == <<mainvars, lockvars, pipevars, fsvars, extvars>>

\* what a call leaves behind for its caller: the operation, its arguments,
\* and the Result it returned
Called(op, id, arg, res, value) ==
    [tick |-> 1 - ret.tick, op |-> op, id |-> id, arg |-> arg, res |-> res,
     value |-> value]

RegTick ==
    /\ clock < MaxClock
    /\ clock' = clock + 1
    /\ UNCHANGED <<reg, ret, NotReg>>

RegCreate ==
    \E id \in Ids, gd \in GitDirs, ins \in Instructions :
       LET r == create_session(reg, id, gd, ins, get_session_dir(id), <<>>)
       IN /\ reg' = r.sessions
          /\ ret' = Called("create_session", Some(id), None, r.res, r.value)
          /\ UNCHANGED <<clock, NotReg>>

RegGetInfo ==
    \E id \in Ids :
       /\ ret' = Called("get_session_info", Some(id), None,
                         get_session_info(reg, id).res, get_session_info(reg, id).value)
       /\ UNCHANGED <<clock, reg, NotReg>>

RegSetWorking ==
    \E id \in Ids, p \in RegPids :
       LET r == set_working(reg, id, p)
       IN /\ reg' = r.sessions
          /\ ret' = Called("set_working", Some(id), Some(p), r.res, None)
          /\ UNCHANGED <<clock, NotReg>>

RegSetCompleted ==
    \E id \in Ids, u \in RegUrls :
       LET r == set_completed(reg, id, u)
       IN /\ reg' = r.sessions
          /\ ret' = Called("set_completed", Some(id), Some(u), r.res, None)
          /\ UNCHANGED <<clock, NotReg>>

RegSetError ==
    \E id \in Ids, m \in RegMessages :
       LET r == set_error(reg, id, m)
       IN /\ reg' = r.sessions
          /\ ret' = Called("set_error", Some(id), Some(m), r.res, None)
          /\ UNCHANGED <<clock, NotReg>>

RegGetProcessId ==
    \E id \in Ids :
       /\ ret' = Called("get_process_id", Some(id), None,
                         get_process_id(reg, id).res, get_process_id(reg, id).value)
       /\ UNCHANGED <<clock, reg, NotReg>>

RegGetWorkDir ==
    \E id \in Ids :
       /\ ret' = Called("get_work_dir", Some(id), None,
                         get_work_dir(reg, id).res, get_work_dir(reg, id).value)
       /\ UNCHANGED <<clock, reg, NotReg>>

RegGetBranchName ==
    \E id \in Ids :
       /\ ret' = Called("get_branch_name", Some(id), None,
                         get_branch_name(reg, id).res, get_branch_name(reg, id).value)
       /\ UNCHANGED <<clock, reg, NotReg>>

RegRemove ==
    \E id \in Ids :
       LET r == remove_session(reg, id)
       IN /\ reg' = r.sessions
          /\ ret' = Called("remove_session", Some(id), None, r.res, r.value)
          /\ UNCHANGED <<clock, NotReg>>

RegList ==
    \E v \in list_sessions(reg) :
       /\ ret' = Called("list_sessions", None, None, "Ok", v)
       /\ UNCHANGED <<clock, reg, NotReg>>

RegListActive ==
    \E v \in get_active_sessions(reg) :
       /\ ret' = Called("get_active_sessions", None, None, "Ok", v)
       /\ UNCHANGED <<clock, reg, NotReg>>

RegNext ==
    \/ RegTick
    \/ RegCreate
    \/ RegGetInfo
    \/ RegSetWorking
    \/ RegSetCompleted
    \/ RegSetError
    \/ RegGetProcessId
    \/ RegGetWorkDir
    \/ RegGetBranchName
    \/ RegRemove
    \/ RegList
    \/ RegListActive

(* ---------------- SpecLock: who holds the registry mutex ---------------- *)
NotLock == <<mainvars, regvars, pipevars, fsvars, extvars>>

\* the thread holding the mutex from its start on, across run_full_session
LockThreadStart_locked ==
    \E t \in LockThreads :
       /\ lpc[t] = "start"
       /\ lock = None
       /\ lock' = Some(t)
       /\ lpc' = [lpc EXCEPT ![t] = "run_full_session"]
       /\ UNCHANGED <<lpoison, llog, NotLock>>

\* the spawned thread builds its config and enters run_full_session(config),
\* which is not given the manager
LockThreadStart ==
    \E t \in LockThreads :
       /\ lpc[t] = "start"
       /\ lpc' = [lpc EXCEPT ![t] = "run_full_session"]
       /\ UNCHANGED <<lock, lpoison, llog, NotLock>>

\* run_full_session returns (Ok or Err); the thread calls set_completed or
\* set_error
LockThreadReturn ==
    \E t \in LockThreads :
       /\ lpc[t] = "run_full_session"
       /\ lpc' = [lpc EXCEPT ![t] = "lock"]
       /\ UNCHANGED <<lock, lpoison, llog, NotLock>>

\* a command handler calls get_session_info or list_sessions
LockQueryCall ==
    \E q \in LockQueries :
       /\ lpc[q] \in {"start", "done", "LockError"}
       /\ lpc' = [lpc EXCEPT ![q] = "lock"]
       /\ UNCHANGED <<lock, lpoison, llog, NotLock>>

\* the handler of spawn_claude_session calls create_session
LockCreateCall ==
    \E c \in LockCreators :
       /\ lpc[c] = "start"
       /\ lpc' = [lpc EXCEPT ![c] = "lock"]
       /\ UNCHANGED <<lock, lpoison, llog, NotLock>>

\* lock() of a poisoned mutex never returning
LockAcquireBy_blocks(u) ==
    /\ lpc[u] = "lock"
    /\ lock = None
    /\ ~lpoison
    /\ lock' = Some(u)
    /\ lpc' = [lpc EXCEPT ![u] = "locked"]
    /\ UNCHANGED <<lpoison, llog, NotLock>>

\* self.sessions.lock().map_err(|_| SessionError::LockError)?: the guard, or
\* LockError when the mutex is poisoned (the guard inside the PoisonError is
\* dropped by map_err and the method returns)
LockAcquireBy(u) ==
    /\ lpc[u] = "lock"
    /\ lock = None
    /\ IF lpoison
       THEN /\ lpc' = [lpc EXCEPT ![u] = "LockError"]
            /\ UNCHANGED lock
       ELSE /\ lock' = Some(u)
            /\ lpc' = [lpc EXCEPT ![u] = "locked"]
    /\ UNCHANGED <<lpoison, llog, NotLock>>

LockAcquire == \E u \in LockUsers : LockAcquireBy(u)

\* the registry method returns and its guard is dropped; create_session,
\* set_completed and set_error have changed the map
LockReleaseBy(u) ==
    /\ lpc[u] = "locked"
    /\ lock = Some(u)
    /\ lock' = None
    /\ lpc' = [lpc EXCEPT ![u] = "done"]
    /\ llog' = IF u \in LockQueries THEN llog ELSE Append(llog, u)
    /\ UNCHANGED <<lpoison, NotLock>>

LockRelease == \E u \in LockUsers : LockReleaseBy(u)

\* Session::new inside create_session: duration_since(UNIX_EPOCH).unwrap()
\* panics when the system clock is before the epoch; the guard is dropped
\* during the unwinding, before the insert, and the mutex is poisoned
LockCreatePanic ==
    \E c \in LockCreators :
       /\ lpc[c] = "locked"
       /\ lock = Some(c)
       /\ lock' = None
       /\ lpoison' = TRUE
       /\ lpc' = [lpc EXCEPT ![c] = "panicked"]
       /\ UNCHANGED <<llog, NotLock>>

LockNext ==
    \/ LockThreadStart
    \/ LockThreadReturn
    \/ LockQueryCall
    \/ LockCreateCall
    \/ LockAcquire
    \/ LockRelease
    \/ LockCreatePanic

(* ---------------- SpecPipe: wait_for_process and the child's pipes ------ *)
\* most writes a child makes, and the writes a pipe buffers before a
\* further write blocks
MaxWrites == 4
PipeCap == 2

NotPipe == <<mainvars, regvars, lockvars, fsvars, extvars>>

\* what a child may write, in order: each write goes to stdout or stderr
Scripts ==
    UNION {[1..n -> {"out", "err"}] : n \in 0..MaxWrites}

\* cmd.spawn() with stdout and stderr piped
PipeSpawn ==
    /\ cpc = "none"
    /\ \E sc \in Scripts : script' = sc
    /\ cpc' = "running"
    /\ UNCHANGED <<outbuf, errbuf, wpc, NotPipe>>

\* the child's next write; it blocks while the pipe is full
ChildWrite ==
    /\ cpc = "running"
    /\ script # <<>>
    /\ IF Head(script) = "out"
       THEN outbuf < PipeCap /\ outbuf' = outbuf + 1 /\ errbuf' = errbuf
       ELSE errbuf < PipeCap /\ errbuf' = errbuf + 1 /\ outbuf' = outbuf
    /\ script' = Tail(script)
    /\ UNCHANGED <<cpc, wpc, NotPipe>>

\* the child has written everything and exits, closing both write ends
ChildExit ==
    /\ cpc = "running"
    /\ script = <<>>
    /\ cpc' = "exited"
    /\ UNCHANGED <<script, outbuf, errbuf, wpc, NotPipe>>

\* wait_for_process(child): takes both read ends, starts with stdout
WaitCall ==
    /\ cpc # "none"
    /\ wpc = "none"
    /\ wpc' = "stdout"
    /\ UNCHANGED <<script, outbuf, errbuf, cpc, NotPipe>>

\* reader.lines() on stdout: takes what is buffered, blocks on an empty
\* open pipe
ReadStdout ==
    /\ wpc = "stdout"
    /\ outbuf > 0
    /\ outbuf' = outbuf - 1
    /\ UNCHANGED <<script, errbuf, cpc, wpc, NotPipe>>

\* end of file on stdout: the pipe is empty and its write end is closed
StdoutEof ==
    /\ wpc = "stdout"
    /\ outbuf = 0
    /\ cpc = "exited"
    /\ wpc' = "stderr"
    /\ UNCHANGED <<script, outbuf, errbuf, cpc, NotPipe>>

\* reader.lines() on stderr, only after stdout reached end of file
ReadStderr ==
    /\ wpc = "stderr"
    /\ errbuf > 0
    /\ errbuf' = errbuf - 1
    /\ UNCHANGED <<script, outbuf, cpc, wpc, NotPipe>>

StderrEof ==
    /\ wpc = "stderr"
    /\ errbuf = 0
    /\ cpc = "exited"
    /\ wpc' = "wait"
    /\ UNCHANGED <<script, outbuf, errbuf, cpc, NotPipe>>

\* child.wait() and the Ok(ProcessResult)
WaitReturn ==
    /\ wpc = "wait"
    /\ cpc = "exited"
    /\ wpc' = "returned"
    /\ UNCHANGED <<script, outbuf, errbuf, cpc, NotPipe>>

PipeNext ==
    \/ PipeSpawn
    \/ ChildWrite
    \/ ChildExit
    \/ WaitCall
    \/ ReadStdout
    \/ StdoutEof
    \/ ReadStderr
    \/ StderrEof
    \/ WaitReturn

(* ---------------- SpecFs: git_ops on the temp-checkouts root ------------ *)
NotFs == <<mainvars, regvars, lockvars, pipevars, extvars>>

\* name.starts_with(prefix), names being sequences of pieces
StartsWith(name, prefix) ==
    /\ Len(name) >= Len(prefix)
    /\ SubSeq(name, 1, Len(prefix)) = prefix

SessionPrefix == <<"session-">>

\* the file name of get_session_dir(id) inside the root
SessionName(id) == Tail(get_session_dir(id))

\* the names an entry of the root can have
FsNames == {SessionName(i) : i \in Ids} \cup {<<"other">>, <<"session">>}

\* the files of the source checkout, and whether it is a git repository
SourceFiles == {"a.txt"}
Sources == [files : {SourceFiles}, repo : BOOLEAN]

\* what an entry made outside the program can hold
ForeignEntries ==
    {[kind |-> "file", content |-> {}]}
    \cup {[kind |-> "dir", content |-> c] : c \in {{}, {"old.txt"}}}

Without(es, names) == [n \in DOMAIN es \ names |-> es[n]]

With(es, name, e) ==
    [n \in DOMAIN es \cup {name} |-> IF n = name THEN e ELSE es[n]]

\* the [res, entries, value] outcomes of copy_dir_recursive(source,
\* session_dir) followed by Repository::open: the copy can fail before
\* create_dir_all made the directory, or part-way; a complete copy of a
\* directory that is no repository fails in Repository::open
copy_and_open(es, source, name, base) ==
    {[res |-> "IoError", entries |-> es, value |-> None]}
    \cup {[res |-> "IoError",
           entries |-> With(es, name, [kind |-> "dir", content |-> base \cup c]),
           value |-> None] : c \in SUBSET source.files \ {source.files}}
    \cup {[res |-> IF source.repo THEN "Ok" ELSE "GitError",
           entries |-> With(es, name, [kind |-> "dir",
                                       content |-> base \cup source.files]),
           value |-> IF source.repo THEN Some(name) ELSE None]}

\* clone_to_temp without the exists() check: the copy goes into whatever
\* directory is there
clone_to_temp_merges(es, source, id) ==
    IF SessionName(id) \in DOMAIN es /\ es[SessionName(id)].kind = "file"
    THEN {[res |-> "IoError", entries |-> es, value |-> None]}
    ELSE copy_and_open(es, source, SessionName(id),
                       IF SessionName(id) \in DOMAIN es
                       THEN es[SessionName(id)].content ELSE {})

\* clone_to_temp on the entries of the root (ensure_temp_checkouts_dir has
\* made the root): the outcomes [res, entries, value]
clone_to_temp_entries(es, source, id) ==
    IF SessionName(id) \in DOMAIN es
    THEN {[res |-> "SessionExists", entries |-> es, value |-> None]}
    ELSE copy_and_open(es, source, SessionName(id), {})

\* remove_dir_all without the exists() test: a missing path is an error
cleanup_session_dir_strict(es, name) ==
    IF name \notin DOMAIN es
    THEN {[res |-> "IoError", entries |-> es]}
    ELSE {[res |-> "Ok", entries |-> Without(es, {name})],
          [res |-> "IoError", entries |-> es]}

\* cleanup_session_dir(path) and cleanup_session(id) on the entries:
\* nothing to do when the path does not exist; remove_dir_all can fail and
\* leave the entry
cleanup_session_dir(es, name) ==
    IF name \notin DOMAIN es
    THEN {[res |-> "Ok", entries |-> es]}
    ELSE {[res |-> "Ok", entries |-> Without(es, {name})],
          [res |-> "IoError", entries |-> es]}

\* the sweep without the prefix test
cleanup_orphaned_sessions_any_dir(r, es) ==
    LET hit == {n \in DOMAIN es : es[n].kind = "dir"}
    IN {[res |-> "Ok", entries |-> Without(es, hit),
         value |-> Some(Cardinality(hit))]}

\* cleanup_orphaned_sessions: Ok(0) without a root; else every entry that
\* is a directory and whose name starts with "session-" is removed and
\* counted; a failing remove_dir_all ends the sweep with the entries
\* visited before it already removed
cleanup_orphaned_sessions(r, es) ==
    IF ~r
    THEN {[res |-> "Ok", entries |-> es, value |-> Some(0)]}
    ELSE LET hit == {n \in DOMAIN es : /\ es[n].kind = "dir"
                                        /\ StartsWith(n, SessionPrefix)}
         IN {[res |-> "Ok", entries |-> Without(es, hit),
              value |-> Some(Cardinality(hit))]}
            \cup {[res |-> "IoError", entries |-> Without(es, done),
                   value |-> None] : done \in SUBSET hit \ {hit}}

FsCalled(op, arg, res, value) ==
    [tick |-> 1 - fsret.tick, op |-> op, arg |-> arg, res |-> res,
     value |-> value]

\* ensure_temp_checkouts_dir, also run by anything else that makes the root
FsEnsureRoot ==
    /\ ~root
    /\ root' = TRUE
    /\ UNCHANGED <<entries, fsret, NotFs>>

\* something other than the program puts an entry into the root
FsForeign ==
    /\ root
    /\ \E n \in FsNames \ DOMAIN entries, e \in ForeignEntries :
          entries' = With(entries, n, e)
    /\ UNCHANGED <<root, fsret, NotFs>>

FsClone ==
    \E id \in Ids, source \in Sources :
       \E o \in clone_to_temp_entries(entries, source, id) :
          /\ root' = TRUE
          /\ entries' = o.entries
          /\ fsret' = FsCalled("clone_to_temp", Some(id), o.res, o.value)
          /\ UNCHANGED NotFs

\* cleanup_session(id); the call record notes whether the path existed
FsCleanupSession ==
    \E id \in Ids :
       \E o \in cleanup_session_dir(entries, SessionName(id)) :
          /\ entries' = o.entries
          /\ fsret' = FsCalled("cleanup_session", Some(SessionName(id)), o.res,
                               Some(SessionName(id) \in DOMAIN entries))
          /\ UNCHANGED <<root, NotFs>>

\* cleanup_session_dir(path) on any path of the root
FsCleanupSessionDir ==
    \E name \in FsNames :
       \E o \in cleanup_session_dir(entries, name) :
          /\ entries' = o.entries
          /\ fsret' = FsCalled("cleanup_session_dir", Some(name), o.res,
                               Some(name \in DOMAIN entries))
          /\ UNCHANGED <<root, NotFs>>

FsCleanupOrphaned ==
    \E o \in cleanup_orphaned_sessions(root, entries) :
       /\ entries' = o.entries
       /\ fsret' = FsCalled("cleanup_orphaned_sessions", None, o.res, o.value)
       /\ UNCHANGED <<root, NotFs>>

FsNext ==
    \/ FsEnsureRoot
    \/ FsForeign
    \/ FsClone
    \/ FsCleanupSession
    \/ FsCleanupSessionDir
    \/ FsCleanupOrphaned

(* ---------------- SpecApp: application processes on one machine -------- *)
\* Every process started from the binary runs run(): its own SessionManager,
\* then the setup hook's sweep; all of them use the same temp-checkouts root.
NotApp == <<mainvars, regvars, lockvars, pipevars, branchvars, composevars,
            parsevars, tokenvars, commitvars, persistvars>>

WithStatus(rg, id, st) ==
    [i \in DOMAIN rg \cup {id} |-> IF i = id THEN st ELSE rg[i]]

ActiveIn(rg) == {i \in DOMAIN rg : rg[i] \in {Initializing, Working}}

\* run(): SessionManager::new(), then setup calls cleanup_orphaned_sessions
\* and only warns when it fails
AppRun ==
    \E a \in Apps :
       /\ aphase[a] = "off"
       /\ \E o \in cleanup_orphaned_sessions(root, entries) :
             /\ entries' = o.entries
             /\ fsret' = FsCalled("cleanup_orphaned_sessions", Some(a),
                                  o.res, o.value)
       /\ aphase' = [aphase EXCEPT ![a] = "running"]
       /\ areg' = [areg EXCEPT ![a] = <<>>]
       /\ UNCHANGED <<root, NotApp>>

\* spawn_claude_session: a fresh uuid, create_session
AppSpawn ==
    \E a \in Apps, id \in Ids :
       /\ aphase[a] = "running"
       /\ \A b \in Apps : id \notin DOMAIN areg[b]
       /\ SessionName(id) \notin DOMAIN entries
       /\ areg' = [areg EXCEPT ![a] = WithStatus(@, id, Initializing)]
       /\ UNCHANGED <<aphase, fsvars, NotApp>>

\* spawn_claude_session: set_working after the thread was started
AppSetWorking ==
    \E a \in Apps, id \in Ids :
       /\ aphase[a] = "running"
       /\ id \in DOMAIN areg[a] /\ areg[a][id] = Initializing
       /\ areg' = [areg EXCEPT ![a] = WithStatus(@, id, Working)]
       /\ UNCHANGED <<aphase, fsvars, NotApp>>

\* the thread's clone_to_temp; a failure ends the run with set_error
AppClone ==
    \E a \in Apps, id \in Ids, source \in Sources :
       /\ aphase[a] = "running"
       /\ id \in ActiveIn(areg[a])
       /\ SessionName(id) \notin DOMAIN entries
       /\ \E o \in clone_to_temp_entries(entries, source, id) :
             /\ entries' = o.entries
             /\ fsret' = FsCalled("clone_to_temp", Some(id), o.res, o.value)
             /\ areg' = IF o.res = "Ok" THEN areg
                        ELSE [areg EXCEPT ![a] = WithStatus(@, id, Error)]
       /\ root' = TRUE
       /\ UNCHANGED <<aphase, NotApp>>

\* the thread's set_completed at the end of a run that cloned
AppComplete ==
    \E a \in Apps, id \in Ids :
       /\ aphase[a] = "running"
       /\ id \in ActiveIn(areg[a])
       /\ SessionName(id) \in DOMAIN entries
       /\ areg' = [areg EXCEPT ![a] = WithStatus(@, id, Completed)]
       /\ UNCHANGED <<aphase, fsvars, NotApp>>

\* the thread's cleanup_session after its set_error
AppCleanup ==
    \E a \in Apps, id \in Ids :
       /\ aphase[a] = "running"
       /\ id \in DOMAIN areg[a] /\ areg[a][id] = Error
       /\ SessionName(id) \in DOMAIN entries
       /\ \E o \in cleanup_session_dir(entries, SessionName(id)) :
             /\ entries' = o.entries
             /\ fsret' = FsCalled("cleanup_session", Some(SessionName(id)),
                                  o.res, Some(TRUE))
       /\ UNCHANGED <<root, aphase, areg, NotApp>>

\* the process ends: its registry is gone, the directories stay
AppExit ==
    \E a \in Apps :
       /\ aphase[a] = "running"
       /\ aphase' = [aphase EXCEPT ![a] = "off"]
       /\ areg' = [areg EXCEPT ![a] = <<>>]
       /\ UNCHANGED <<fsvars, NotApp>>

AppNext ==
    \/ AppRun
    \/ AppSpawn
    \/ AppSetWorking
    \/ AppClone
    \/ AppComplete
    \/ AppCleanup
    \/ AppExit

(* ---------------- SpecBranch: branch.rs generate_branch_name ------------ *)
\* Strings are sequences of characters.
NotBranch == <<mainvars, regvars, lockvars, pipevars, fsvars, appvars,
               composevars, parsevars, tokenvars,
               commitvars, persistvars>>

\* characters a description is made of
BranchChars == {"a", "Z", "7", "-", " ", "#"}

\* char::to_lowercase and char::is_alphanumeric on these characters
Lower(c) == IF c = "Z" THEN "z" ELSE c
IsAlphanumeric(c) == c \in {"a", "z", "Z", "7"}

\* .take(30)
SlugMax == 30

\* longest description of the exhaustive part, and the ticks of a second
MaxShort == 3
TicksPerSecond == 2
MaxTicks == 3
MaxBranchCalls == 2

\* the instant the clock starts at: 9 s after the epoch
BranchEpoch == 9 * TicksPerSecond

Rep(c, n) == [i \in 1..n |-> c]

SeqsUpTo(S, n) == UNION {[1..k -> S] : k \in 0..n}

\* every description of up to MaxShort characters, and descriptions around
\* the truncation length: a run of letters, then up to two other characters,
\* then possibly a digit
Descriptions ==
    SeqsUpTo(BranchChars, MaxShort)
    \cup {Rep("a", n) \o mid \o tail :
            n \in (SlugMax - 2)..(SlugMax + 1),
            mid \in SeqsUpTo({"-", " ", "Z"}, 2),
            tail \in {<<>>, <<"7">>}}

Map(f(_), str) == [i \in 1..Len(str) |-> f(str[i])]

Dash(c) == IF IsAlphanumeric(c) THEN c ELSE "-"

\* str.split('-'): the pieces between the separators, empty ones included
RECURSIVE Split(_)
Split(str) ==
    IF \A i \in 1..Len(str) : str[i] # "-"
    THEN <<str>>
    ELSE LET k == CHOOSE i \in 1..Len(str) :
                     str[i] = "-" /\ \A j \in 1..(i - 1) : str[j] # "-"
         IN <<SubSeq(str, 1, k - 1)>> \o Split(SubSeq(str, k + 1, Len(str)))

IsEmptyPiece(piece) == piece = <<>>

\* the filter keeping every piece
KeepPieces_all(pieces) == pieces

\* .filter(|s| !s.is_empty())
KeepPieces(pieces) == SelectSeq(pieces, LAMBDA pc : ~IsEmptyPiece(pc))

\* pieces.join("-")
RECURSIVE Join(_)
Join(pieces) ==
    IF pieces = <<>> THEN <<>>
    ELSE IF Len(pieces) = 1 THEN pieces[1]
    ELSE pieces[1] \o <<"-">> \o Join(Tail(pieces))

Take(str, n) == SubSeq(str, 1, IF Len(str) < n THEN Len(str) ELSE n)

\* the slug before .take(30)
Joined(description) ==
    Join(KeepPieces(Split(Map(Dash, Map(Lower, description)))))

Slug(description) == Take(Joined(description), SlugMax)

\* as_secs() of an instant
AsSecs(instant) == instant \div TicksPerSecond

\* the decimal digits of a number ({} of format!)
RECURSIVE Decimal(_)
Decimal(n) ==
    IF n < 10
    THEN <<<<"0", "1", "2", "3", "4", "5", "6", "7", "8", "9">>[n + 1]>>
    ELSE Decimal(n \div 10) \o Decimal(n % 10)

BranchPrefix == <<"c", "l", "a", "u", "d", "e", "/">>

\* generate_branch_name(description), called at `instant`
generate_branch_name(description, instant) ==
    BranchPrefix \o Slug(description) \o <<"-">> \o Decimal(AsSecs(instant))

\* the description is given; the clock is at its start
BranchInit ==
    /\ MainInit /\ RegInit /\ LockInit /\ PipeInit /\ FsInit /\ AppInit
    /\ ComposeIdle /\ ParseIdle /\ TokenIdle /\ CommitIdle
    /\ PersistIdle
    /\ bdesc \in Descriptions
    /\ bnow = BranchEpoch
    /\ bcalls = <<>>

BranchTick ==
    /\ bnow < BranchEpoch + MaxTicks
    /\ bnow' = bnow + 1
    /\ UNCHANGED <<bdesc, bcalls, NotBranch>>

\* a call of generate_branch_name(description)
BranchGenerate ==
    /\ Len(bcalls) < MaxBranchCalls
    /\ bcalls' = Append(bcalls, [id |-> None, at |-> bnow, work_dir |-> None,
                                 name |-> generate_branch_name(bdesc, bnow)])
    /\ UNCHANGED <<bdesc, bnow, NotBranch>>

\* step 3 of run_full_session for a session with a fresh id: its working
\* directory is get_session_dir(id), its branch name is generated from the
\* instructions
BranchSession ==
    /\ Len(bcalls) < MaxBranchCalls
    /\ \E id \in Ids :
          /\ \A n \in 1..Len(bcalls) : bcalls[n].id # Some(id)
          /\ bcalls' = Append(bcalls,
                              [id |-> Some(id), at |-> bnow,
                               work_dir |-> Some(get_session_dir(id)),
                               name |-> generate_branch_name(bdesc, bnow)])
    /\ UNCHANGED <<bdesc, bnow, NotBranch>>

BranchNext ==
    \/ BranchTick
    \/ BranchGenerate
    \/ BranchSession

(* ---------------- SpecCompose: process.rs compose_instructions ---------- *)
NotCompose == <<mainvars, regvars, lockvars, pipevars, fsvars, appvars,
                branchvars, parsevars, tokenvars, commitvars, persistvars>>

\* characters of the inputs; the last two are white space
TextChars == {"x", " ", "\n"}
WhiteSpace == {" ", "\n"}

\* longest input text, and the calls made
MaxText == 2
MaxComposeCalls == 2

Texts == SeqsUpTo(TextChars, MaxText)

OptionalTexts == {None} \cup {Some(t) : t \in Texts}

\* the pushed literals, line by line
HeaderAdditional == <<"\n", "\n", "## Additional Instructions", "\n">>
HeaderFile == <<"\n", "\n", "## Instructions from File", "\n">>
Guidelines ==
    <<"\n", "\n", "## Important Guidelines", "\n",
      "- Make the requested changes to the codebase", "\n",
      "- Run tests to verify your changes work correctly", "\n",
      "- Do NOT perform any git operations (no git add, commit, push, branch, etc.)", "\n",
      "- When you have completed all changes and tests pass, simply stop working", "\n">>

\* the test that lets an empty string only count as blank
IsBlank_empty_only(str) == str = <<>>

\* str.trim().is_empty()
IsBlank(str) == \A i \in 1..Len(str) : str[i] \in WhiteSpace

\* compose_instructions: the push_str calls in their order
compose_instructions(user_instructions, additional_instructions, instructions_file_content) ==
    LET s1 == user_instructions
        s2 == IF additional_instructions # None
                 /\ ~IsBlank(additional_instructions[1])
              THEN s1 \o HeaderAdditional \o additional_instructions[1]
              ELSE s1
        s3 == IF instructions_file_content # None
                 /\ ~IsBlank(instructions_file_content[1])
              THEN s2 \o HeaderFile \o instructions_file_content[1]
              ELSE s2
    IN s3 \o Guidelines

ComposeInit ==
    /\ MainInit /\ RegInit /\ LockInit /\ PipeInit /\ FsInit /\ AppInit
    /\ BranchIdle /\ ParseIdle /\ TokenIdle /\ CommitIdle
    /\ PersistIdle
    /\ cin \in [user : Texts, additional : OptionalTexts, file : OptionalTexts]
    /\ cout = <<>>

Compose ==
    /\ Len(cout) < MaxComposeCalls
    /\ cout' = Append(cout, compose_instructions(cin.user, cin.additional,
                                                 cin.file))
    /\ UNCHANGED <<cin, NotCompose>>

ComposeNext == Compose

(* ---------------- SpecParse: pr.rs parse_github_remote ------------------ *)
\* A URL is a sequence of pieces; each literal the code looks for is a
\* sequence of pieces too.
NotParse == <<mainvars, regvars, lockvars, pipevars, fsvars, appvars,
              branchvars, composevars, tokenvars, commitvars, persistvars>>

\* longest path part of a URL, in pieces
MaxPath == 5

\* owner and repository names
Names == {"o", "r"}

\* the URLs: a scheme, a host (github.com or not, with or without a
\* sub-domain in front), ':' or '/', a path of names and slashes, an
\* optional .git and an optional end of line
RemoteUrls ==
    {scheme \o sub \o host \o sep \o path \o suffix \o eol :
        scheme \in {<<"git@">>, <<"https://">>},
        sub \in {<<>>, <<"work.">>},
        host \in {<<"github.com">>, <<"gitlab.com">>},
        sep \in {<<":">>, <<"/">>},
        path \in SeqsUpTo(Names \cup {"/"}, MaxPath),
        suffix \in {<<>>, <<".git">>},
        eol \in {<<>>, <<"\n">>}}

\* str.trim()
RECURSIVE Trim(_)
Trim(str) ==
    IF str = <<>> THEN str
    ELSE IF Head(str) \in WhiteSpace THEN Trim(Tail(str))
    ELSE IF str[Len(str)] \in WhiteSpace THEN Trim(SubSeq(str, 1, Len(str) - 1))
    ELSE str

EndsWith(str, suffix) ==
    /\ Len(str) >= Len(suffix)
    /\ SubSeq(str, Len(str) - Len(suffix) + 1, Len(str)) = suffix

Contains(str, part) ==
    \E i \in 1..(Len(str) - Len(part) + 1) :
       SubSeq(str, i, i + Len(part) - 1) = part

\* str.strip_suffix(suffix).unwrap_or(str)
StripSuffix(str, suffix) ==
    IF EndsWith(str, suffix)
    THEN SubSeq(str, 1, Len(str) - Len(suffix))
    ELSE str

\* str.split(sep): the pieces between the separators, empty ones included
RECURSIVE SplitOn(_, _)
SplitOn(str, sep) ==
    IF \A i \in 1..Len(str) : str[i] # sep
    THEN <<str>>
    ELSE LET k == CHOOSE i \in 1..Len(str) :
                     str[i] = sep /\ \A j \in 1..(i - 1) : str[j] # sep
         IN <<SubSeq(str, 1, k - 1)>>
            \o SplitOn(SubSeq(str, k + 1, Len(str)), sep)

ParseError == [res |-> "GitError", owner |-> <<>>, repo |-> <<>>]

\* "https://github.com/"
HttpsPrefix == <<"https://", "github.com", "/">>

\* the HTTPS branch of parse_github_remote
parse_https(url) ==
    IF StartsWith(url, HttpsPrefix)
    THEN LET path == StripSuffix(SubSeq(url, Len(HttpsPrefix) + 1, Len(url)),
                                 <<".git">>)
             parts == SplitOn(path, "/")
         IN IF Len(parts) >= 2
            THEN [res |-> "Ok", owner |-> parts[1], repo |-> parts[2]]
            ELSE ParseError
    ELSE ParseError

\* parse_github_remote: the SSH branch first; whatever it does not return
\* falls through to the HTTPS branch
parse_github_remote(remote_url) ==
    LET url == Trim(remote_url)
    IN IF StartsWith(url, <<"git@">>) /\ Contains(url, <<"github.com", ":">>)
       THEN LET path_start == CHOOSE i \in 1..Len(url) :
                                 url[i] = ":" /\ \A j \in 1..(i - 1) : url[j] # ":"
                path == StripSuffix(SubSeq(url, path_start + 1, Len(url)),
                                    <<".git">>)
                parts == SplitOn(path, "/")
            IN IF Len(parts) = 2
               THEN [res |-> "Ok", owner |-> parts[1], repo |-> parts[2]]
               ELSE parse_https(url)
       ELSE parse_https(url)

ParseInit ==
    /\ MainInit /\ RegInit /\ LockInit /\ PipeInit /\ FsInit /\ AppInit
    /\ BranchIdle /\ ComposeIdle /\ TokenIdle /\ CommitIdle
    /\ PersistIdle
    /\ purl \in RemoteUrls
    /\ pres = None

ParseRemote ==
    /\ pres = None
    /\ pres' = Some(parse_github_remote(purl))
    /\ UNCHANGED <<purl, NotParse>>

ParseNext == ParseRemote

(* ---------------- SpecToken: pr.rs get_github_token, create_pull_request -- *)
NotToken == <<mainvars, regvars, lockvars, pipevars, fsvars, appvars,
              branchvars, composevars, parsevars, commitvars, persistvars>>

\* the github_token string of ~/.dreamal/credentials.json: None when the
\* directory, the file, the JSON or the string field is missing
FileTokens == {None, Some(<<>>), Some(<<"f">>)}

\* the standard output of a successful `gh auth token`: None when gh cannot
\* be run or exits with a failure
GhOutputs == {None, Some(<<>>), Some(<<"\n">>), Some(<<"g", "\n">>)}

\* the GITHUB_TOKEN environment variable: None when it is not set
EnvTokens == {None, Some(<<>>), Some(<<"e">>)}

\* the URL of the remote "origin": None when there is none
OriginUrls == {None,
               Some(<<"https://", "gitlab.com", "/", "o", "/", "r">>),
               Some(<<"git@", "github.com", ":", "o", "/", "r", ".git", "\n">>)}

\* what the API does with a request
Responses == {"created", "rejected", "unreachable"}

AuthError == [res |-> "AuthError", value |-> <<>>]

OkToken(token) == [res |-> "Ok", value |-> token]

\* std::env::var("GITHUB_TOKEN").map_err(..)
env_token(env) ==
    IF env # None THEN OkToken(env[1]) ELSE AuthError

get_github_token(file, gh, env) ==
    IF file # None /\ file[1] # <<>>
    THEN OkToken(file[1])
    ELSE IF gh # None /\ Trim(gh[1]) # <<>>
    THEN OkToken(Trim(gh[1]))
    ELSE env_token(env)

\* create_pull_request: the result and the requests sent
create_pull_request(in) ==
    IF in.origin = None
    THEN [result |-> [res |-> "GitError", value |-> <<>>], sent |-> <<>>]
    ELSE LET repo_info == parse_github_remote(in.origin[1])
             token == get_github_token(in.file, in.gh, in.env)
         IN IF repo_info.res # "Ok"
            THEN [result |-> [res |-> "GitError", value |-> <<>>],
                  sent |-> <<>>]
            ELSE IF token.res # "Ok"
            THEN [result |-> token, sent |-> <<>>]
            ELSE [result |->
                     CASE in.response = "created" ->
                            [res |-> "Ok", value |-> <<"pr-url">>]
                       [] in.response = "rejected" ->
                            [res |-> "GitError", value |-> <<>>]
                       [] OTHER ->
                            [res |-> "NetworkError", value |-> <<>>],
                  sent |-> <<token.value>>]

TokenInit ==
    /\ MainInit /\ RegInit /\ LockInit /\ PipeInit /\ FsInit /\ AppInit
    /\ BranchIdle /\ ComposeIdle /\ ParseIdle /\ CommitIdle
    /\ PersistIdle
    /\ tin \in [file: FileTokens, gh: GhOutputs, env: EnvTokens,
                origin: OriginUrls, response: Responses]
    /\ ttok = None
    /\ tout = None
    /\ tsent = <<>>

TokenGet ==
    /\ ttok = None
    /\ ttok' = Some(get_github_token(tin.file, tin.gh, tin.env))
    /\ UNCHANGED <<tin, tout, tsent, NotToken>>

PrCreate ==
    /\ tout = None
    /\ LET r == create_pull_request(tin)
       IN /\ tout' = Some(r.result)
          /\ tsent' = tsent \o r.sent
    /\ UNCHANGED <<tin, ttok, NotToken>>

TokenNext ==
    \/ TokenGet
    \/ PrCreate

(* ---------------- SpecCommit: commit.rs commit_and_push ------------------ *)
NotCommit == <<mainvars, regvars, lockvars, pipevars, fsvars, appvars,
               branchvars, composevars, parsevars, tokenvars, persistvars>>

\* the steps of commit_and_push, in the order of the code
GitSteps == <<"stage", "commit", "head", "push">>

GitStepNames == {GitSteps[i] : i \in 1..Len(GitSteps)}

GitErr(step) == [res |-> "GitError", step |-> step]

GitOk == [res |-> "Ok", step |-> "none"]

CommitInit ==
    /\ MainInit /\ RegInit /\ LockInit /\ PipeInit /\ FsInit /\ AppInit
    /\ BranchIdle /\ ComposeIdle /\ ParseIdle /\ TokenIdle /\ PersistIdle
    /\ gin \in [fail: SUBSET GitStepNames, dirty: BOOLEAN]
    /\ gpc = "idle"
    /\ glog = <<>>
    /\ grepo = [staged |-> FALSE, commits |-> 0, pushed |-> 0]
    /\ gres = None

\* a step of commit_and_push ends with `?`: on Err the function returns it
GitFailed(step) ==
    /\ gpc' = "done"
    /\ gres' = Some(GitErr(step))
    /\ UNCHANGED grepo

\* the call of commit_and_push
GitCall ==
    /\ gpc = "idle"
    /\ gpc' = "stage"
    /\ UNCHANGED <<gin, glog, grepo, gres, NotCommit>>

\* stage_all_changes(repo_path)?
GitStage ==
    /\ gpc = "stage"
    /\ glog' = Append(glog, "stage")
    /\ IF "stage" \in gin.fail
       THEN GitFailed("stage")
       ELSE /\ grepo' = [grepo EXCEPT !.staged = gin.dirty]
            /\ gpc' = "commit"
            /\ UNCHANGED gres
    /\ UNCHANGED <<gin, NotCommit>>

\* create_commit(repo_path, message)? going on after an Err
GitCommit_continues ==
    /\ gpc = "commit"
    /\ glog' = Append(glog, "commit")
    /\ IF "commit" \in gin.fail
       THEN /\ gpc' = "head"
            /\ UNCHANGED <<grepo, gres>>
       ELSE /\ grepo' = [grepo EXCEPT !.staged = FALSE,
                                      !.commits = grepo.commits + 1]
            /\ gpc' = "head"
            /\ UNCHANGED gres
    /\ UNCHANGED <<gin, NotCommit>>

\* create_commit(repo_path, message)?
GitCommit ==
    /\ gpc = "commit"
    /\ glog' = Append(glog, "commit")
    /\ IF "commit" \in gin.fail
       THEN GitFailed("commit")
       ELSE /\ grepo' = [grepo EXCEPT !.staged = FALSE,
                                      !.commits = grepo.commits + 1]
            /\ gpc' = "head"
            /\ UNCHANGED gres
    /\ UNCHANGED <<gin, NotCommit>>

\* Repository::open(..)?, repo.head()?, head.shorthand().ok_or_else(..)?
GitHead ==
    /\ gpc = "head"
    /\ glog' = Append(glog, "head")
    /\ IF "head" \in gin.fail
       THEN GitFailed("head")
       ELSE /\ gpc' = "push"
            /\ UNCHANGED <<grepo, gres>>
    /\ UNCHANGED <<gin, NotCommit>>

\* push_to_remote(repo_path, branch_name)?; Ok(())
GitPush ==
    /\ gpc = "push"
    /\ glog' = Append(glog, "push")
    /\ IF "push" \in gin.fail
       THEN GitFailed("push")
       ELSE /\ grepo' = [grepo EXCEPT !.pushed = grepo.commits]
            /\ gpc' = "done"
            /\ gres' = Some(GitOk)
    /\ UNCHANGED <<gin, NotCommit>>

CommitNext ==
    \/ GitCall
    \/ GitStage
    \/ GitCommit
    \/ GitHead
    \/ GitPush

(* ---------------- SpecPersist: persistence.rs --------------------------- *)
NotPersist == <<mainvars, regvars, lockvars, pipevars, fsvars, appvars,
                branchvars, composevars, parsevars, tokenvars, commitvars>>

\* longest pr_url, in characters
MaxField == 2

\* the characters of the strings: a plain one, and the two that JSON escapes
PersistChars == {"a", "\"", "\\"}

PersistIds == {<<"a">>, <<"b">>}

ShortTexts == SeqsUpTo(PersistChars, 1)

PersistTimes == {0, 120}

\* the SessionInfo values
PersistInfos ==
    [id : PersistIds,
     status : SessionStatus,
     pr_url : {None} \cup {Some(t) : t \in SeqsUpTo(PersistChars, MaxField)},
     error_message : {None} \cup {Some(t) : t \in ShortTexts},
     git_directory : ShortTexts,
     instructions : ShortTexts,
     created_at : PersistTimes]

\* session_file_path: <sessions dir>/<id>.json
session_file_path(session_id) == session_id \o <<".json">>

PersistPaths == {session_file_path(id) : id \in PersistIds}

\* serde_json's string: quotes around, '"' and '\' escaped with '\'
RECURSIVE JsonEscape(_)
JsonEscape(str) ==
    IF str = <<>> THEN <<>>
    ELSE (IF Head(str) \in {"\"", "\\"}
          THEN <<"\\", Head(str)>>
          ELSE <<Head(str)>>) \o JsonEscape(Tail(str))

\* a string written without escaping
JsonString_raw(str) == <<"\"">> \o str \o <<"\"">>

JsonString(str) == <<"\"">> \o JsonEscape(str) \o <<"\"">>

\* Option<String>: null or the string
JsonOption(opt) == IF opt = None THEN <<"null">> ELSE JsonString(opt[1])

\* #[serde(rename_all = "lowercase")]: the variant's name in lower case
StatusName(status) == <<status>>

\* serde_json::to_string(info): the fields in the order of the struct
to_string(info) ==
    <<"{", "\"id\":">> \o JsonString(info.id)
    \o <<",", "\"status\":">> \o JsonString(StatusName(info.status))
    \o <<",", "\"pr_url\":">> \o JsonOption(info.pr_url)
    \o <<",", "\"error_message\":">> \o JsonOption(info.error_message)
    \o <<",", "\"git_directory\":">> \o JsonString(info.git_directory)
    \o <<",", "\"instructions\":">> \o JsonString(info.instructions)
    \o <<",", "\"created_at\":">> \o Decimal(info.created_at)
    \o <<"}">>

\* the result of reading one value: whether it was well formed, the value
\* and the position after it
Read(ok, value, next) == [ok |-> ok, value |-> value, next |-> next]

At(json, i) == IF i \in 1..Len(json) THEN json[i] ELSE "end"

\* the characters of a string up to its closing quote, unescaped
RECURSIVE ReadChars(_, _, _)
ReadChars(json, i, acc) ==
    IF At(json, i) = "end" THEN Read(FALSE, acc, i)
    ELSE IF json[i] = "\"" THEN Read(TRUE, acc, i + 1)
    ELSE IF json[i] = "\\"
    THEN IF At(json, i + 1) \in {"\"", "\\"}
         THEN ReadChars(json, i + 2, Append(acc, json[i + 1]))
         ELSE Read(FALSE, acc, i)
    ELSE ReadChars(json, i + 1, Append(acc, json[i]))

ReadString(json, i) ==
    IF At(json, i) = "\"" THEN ReadChars(json, i + 1, <<>>)
    ELSE Read(FALSE, <<>>, i)

ReadOption(json, i) ==
    IF At(json, i) = "null" THEN Read(TRUE, None, i + 1)
    ELSE LET r == ReadString(json, i)
         IN Read(r.ok, Some(r.value), r.next)

Digits == <<"0", "1", "2", "3", "4", "5", "6", "7", "8", "9">>

DigitValue(c) == (CHOOSE k \in 1..Len(Digits) : Digits[k] = c) - 1

IsDigit(c) == \E k \in 1..Len(Digits) : Digits[k] = c

RECURSIVE ReadDigits(_, _, _)
ReadDigits(json, i, acc) ==
    IF IsDigit(At(json, i))
    THEN ReadDigits(json, i + 1, acc * Len(Digits) + DigitValue(json[i]))
    ELSE Read(TRUE, acc, i)

ReadNumber(json, i) ==
    IF IsDigit(At(json, i)) THEN ReadDigits(json, i, 0)
    ELSE Read(FALSE, 0, i)

\* the status of a lower-case variant name
ReadStatus(json, i) ==
    LET r == ReadString(json, i)
    IN IF r.ok /\ Len(r.value) = 1 /\ r.value[1] \in SessionStatus
       THEN Read(TRUE, r.value[1], r.next)
       ELSE Read(FALSE, Initializing, r.next)

\* json[i], json[i+1] are the separator and the key
Key(json, i, sep, key) == At(json, i) = sep /\ At(json, i + 1) = key

\* serde_json::from_str::<SessionInfo>(json) of a record file
from_str(json) ==
    LET id == ReadString(json, 3)
        status == ReadStatus(json, id.next + 2)
        pr_url == ReadOption(json, status.next + 2)
        error_message == ReadOption(json, pr_url.next + 2)
        git_directory == ReadString(json, error_message.next + 2)
        instructions == ReadString(json, git_directory.next + 2)
        created_at == ReadNumber(json, instructions.next + 2)
    IN IF /\ Key(json, 1, "{", "\"id\":") /\ id.ok
          /\ Key(json, id.next, ",", "\"status\":") /\ status.ok
          /\ Key(json, status.next, ",", "\"pr_url\":") /\ pr_url.ok
          /\ Key(json, pr_url.next, ",", "\"error_message\":")
          /\ error_message.ok
          /\ Key(json, error_message.next, ",", "\"git_directory\":")
          /\ git_directory.ok
          /\ Key(json, git_directory.next, ",", "\"instructions\":")
          /\ instructions.ok
          /\ Key(json, instructions.next, ",", "\"created_at\":")
          /\ created_at.ok
          /\ At(json, created_at.next) = "}"
          /\ created_at.next = Len(json)
       THEN [res |-> "Ok",
             value |-> Some([id |-> id.value, status |-> status.value,
                             pr_url |-> pr_url.value,
                             error_message |-> error_message.value,
                             git_directory |-> git_directory.value,
                             instructions |-> instructions.value,
                             created_at |-> created_at.value])]
       ELSE [res |-> "Err", value |-> None]

\* save_session_info: the result and the files after it
save_session_info(files, dir_ok, info) ==
    IF ~dir_ok
    THEN [res |-> "Err", files |-> files]
    ELSE [res |-> "Ok",
          files |-> [files EXCEPT ![session_file_path(info.id)] =
                                     Some(to_string(info))]]

\* load_session_info
load_session_info(files, dir_ok, session_id) ==
    IF ~dir_ok
    THEN [res |-> "Err", value |-> None]
    ELSE IF files[session_file_path(session_id)] = None
    THEN [res |-> "Ok", value |-> None]
    ELSE from_str(files[session_file_path(session_id)][1])

PersistCalled(op, id, res, value) ==
    [tick |-> 1 - pret.tick, op |-> op, id |-> id, res |-> res,
     value |-> value]

PersistInit ==
    /\ MainInit /\ RegInit /\ LockInit /\ PipeInit /\ FsInit /\ AppInit
    /\ BranchIdle /\ ComposeIdle /\ ParseIdle /\ TokenIdle /\ CommitIdle
    /\ pin \in [info : PersistInfos, dir_ok : BOOLEAN]
    /\ pfiles = [path \in PersistPaths |-> None]
    /\ pret = [tick |-> 0, op |-> "none", id |-> <<>>, res |-> "Ok",
               value |-> None]

PersistSave ==
    /\ LET r == save_session_info(pfiles, pin.dir_ok, pin.info)
       IN /\ pfiles' = r.files
          /\ pret' = PersistCalled("save_session_info", pin.info.id, r.res,
                                   None)
    /\ UNCHANGED <<pin, NotPersist>>

PersistLoad ==
    /\ \E id \in PersistIds :
          LET r == load_session_info(pfiles, pin.dir_ok, id)
          IN pret' = PersistCalled("load_session_info", id, r.res, r.value)
    /\ UNCHANGED <<pin, pfiles, NotPersist>>

PersistNext ==
    \/ PersistSave
    \/ PersistLoad

(* ---------------- specification ---------------- *)
Next ==
    \/ \E c \in Calls : SpawnCreate(c)
    \/ \E c \in Calls : SpawnThread(c)
    \/ \E c \in Calls : SpawnSetWorking(c)
    \/ \E c \in Calls : ThreadClone(c)
    \/ \E c \in Calls : ThreadBranch(c)
    \/ \E c \in Calls : ThreadSpawnAgent(c)
    \/ \E c \in Calls : AgentExit(c)
    \/ \E c \in Calls : ThreadWait(c)
    \/ \E c \in Calls : ThreadPublish(c)
    \/ \E c \in Calls : ThreadSetCompleted(c)
    \/ \E c \in Calls : ThreadSetError(c)
    \/ \E c \in Calls : ThreadCleanup(c)
    \/ \E k \in Cancels : CancelRead(k)
    \/ \E k \in Cancels : CancelKill(k)
    \/ \E k \in Cancels : CancelCleanup(k)
    \/ \E k \in Cancels : CancelSetError(k)

Spec == Init /\ [][Next]_vars

SpecReg == Init /\ [][RegNext]_vars

SpecLock == Init /\ [][LockNext]_vars

\* SpecLock with its scheduling: a method that holds the guard returns (or
\* panics), and a lock() that finds the mutex free again and again gets it
LockFairness ==
    /\ \A u \in LockUsers : WF_vars(LockReleaseBy(u) \/ LockCreatePanic)
    /\ \A u \in LockUsers : SF_vars(LockAcquireBy(u))

SpecLockFair == Init /\ [][LockNext]_vars /\ LockFairness

SpecPipe == Init /\ [][PipeNext]_vars

SpecFs == Init /\ [][FsNext]_vars

SpecApp == Init /\ [][AppNext]_vars

SpecBranch == BranchInit /\ [][BranchNext]_vars

SpecCompose == ComposeInit /\ [][ComposeNext]_vars

SpecParse == ParseInit /\ [][ParseNext]_vars

SpecToken == TokenInit /\ [][TokenNext]_vars

SpecCommit == CommitInit /\ [][CommitNext]_vars

SpecPersist == PersistInit /\ [][PersistNext]_vars

TypeOK ==
    /\ platform \in {"unix", "windows"}
    /\ appAlive \in BOOLEAN
    /\ DOMAIN sessions \subseteq Ids
    /\ \A i \in DOMAIN sessions :
         /\ sessions[i].status \in SessionStatus
         /\ sessions[i].error_message \in
              {None} \cup {Some(m) : m \in PipelineErrors \cup {CancelMessage}}
    /\ dirs \subseteq Ids
    /\ \A c \in Calls : terr[c] \in {None} \cup {Some(m) : m \in PipelineErrors}

(* ---------------- helpers of the properties ---------------- *)
\* the calls whose create_session succeeded: the call owns the record of cid[c]
Created(c) == hpc[c] \in {"created", "spawned", "ok"}
SessionOf(c) == cid[c][1]
Terminal == {Completed, Error}
\* the thread of call c has run cleanup_session (whatever its result)
CleanupAttempted(c) ==
    \E n \in 1..Len(tlog[c]) : tlog[c][n] \in {"cleanup", "cleanup failed"}

(* ======================= properties ======================= *)

\* C1: a record's status only moves forward along
\* Initializing -> Working -> {Completed, Error}; once it is Completed or
\* Error it never changes to any other status while the record exists.
C1_StatusMonotonic ==
    [][\A i \in DOMAIN sessions :
         i \in DOMAIN sessions' =>
           \/ sessions'[i].status = sessions[i].status
           \/ sessions[i].status = Initializing
           \/ /\ sessions[i].status = Working
              /\ sessions'[i].status \in Terminal]_vars

\* C2: once the background thread and the spawn_claude_session call that
\* created a session have both finished, the session's status is Completed
\* or Error (no session is left Initializing or Working).
C2_TerminalWhenFinished ==
    \A c \in Calls :
       (hpc[c] = "ok" /\ tpc[c] = "done")
          => sessions[SessionOf(c)].status \in Terminal

\* C3: for every record, pr_url is present iff status is Completed and
\* error_message is present iff status is Error.
C3_OutcomeFields ==
    \A i \in DOMAIN sessions :
       /\ (sessions[i].pr_url # None) <=> (sessions[i].status = Completed)
       /\ (sessions[i].error_message # None) <=> (sessions[i].status = Error)

\* C4: for every record, process_id is present iff status is Working.
C4_ProcessIdIffWorking ==
    \A i \in DOMAIN sessions :
       (sessions[i].process_id # None) <=> (sessions[i].status = Working)

\* C4 witness: a record whose process_id was set by set_working has been
\* completed by its thread and carries no process_id, while another record
\* is Working with a process_id.
C4_Witness ==
    \E c \in Calls, d \in Calls :
       /\ c # d /\ hpc[c] = "ok" /\ hpc[d] = "ok"
       /\ tlog[c] = <<"set_completed">>
       /\ lastWrite[SessionOf(c)] = "thread"
       /\ sessions[SessionOf(c)].status = Completed
       /\ sessions[SessionOf(c)].process_id = None
       /\ sessions[SessionOf(d)].status = Working
       /\ sessions[SessionOf(d)].process_id # None

\* C5: whenever a record has status Working, its process_id is the OS
\* process id of the agent process spawned for that session, and that
\* process has been spawned.
C5_WorkingPidIsAgentPid ==
    \A c \in Calls :
       (Created(c) /\ sessions[SessionOf(c)].status = Working)
          => /\ agent[c] # "none"
             /\ sessions[SessionOf(c)].process_id = Some(AgentPid(c))

\* C6: cancel_session reads process_id, kills if present, removes the
\* working copy, then set_error (the order is the handler's program order
\* CancelRead, CancelKill, CancelCleanup, CancelSetError).  When it has
\* returned Ok and no other write to the record followed, the record has
\* status Error, an error_message, no process_id, and the session's
\* working-copy directory does not exist.
C6_CancelPostState ==
    \A k \in Cancels :
       (kpc[k] = "ok" /\ lastWrite[kid[k][1]] = "cancel")
          => /\ sessions[kid[k][1]].status = Error
             /\ sessions[kid[k][1]].error_message # None
             /\ sessions[kid[k][1]].process_id = None
             /\ kid[k][1] \notin dirs

\* C7: a step of cancel_session(A) terminates no process other than the
\* agent process of session A, and changes neither the registry record nor
\* the working copy of any other session.
C7_CancelIsolated ==
    [][\A k \in Cancels :
         kpc'[k] # kpc[k] =>
            /\ \A j \in DOMAIN sessions :
                  Some(j) # kid'[k] => sessions'[j] = sessions[j]
            /\ \A j \in Ids :
                  Some(j) # kid'[k] => ((j \in dirs') <=> (j \in dirs))
            /\ \A e \in killed' \ killed :
                  \E c \in Calls : /\ Created(c)
                                   /\ cid[c] = Some(e.by)
                                   /\ e.victim = AgentPid(c)]_vars

\* C8: when the pipeline failed, the thread's set_error step leaves the
\* record with status Error and the failure's message, and the cleanup step
\* that follows ends the thread without touching the registry, whether the
\* cleanup succeeded or failed.
C8_FailurePath ==
    [][\A c \in Calls :
         /\ (tpc[c] = "set_error" /\ tpc'[c] # "set_error")
               => /\ tpc'[c] = "cleanup"
                  /\ sessions'[SessionOf(c)].status = Error
                  /\ sessions'[SessionOf(c)].error_message = terr[c]
                  /\ terr[c] # None
         /\ (tpc[c] = "cleanup" /\ tpc'[c] # "cleanup")
               => /\ tpc'[c] = "done"
                  /\ CleanupAttempted(c)'
                  /\ sessions' = sessions]_vars

\* C8 witness: a failed pipeline whose cleanup failed: the thread is done,
\* the working copy is still there and the record still shows the pipeline's
\* error.
C8_Witness ==
    \E c \in Calls :
       /\ tpc[c] = "done"
       /\ tlog[c] = <<"set_error", "cleanup failed">>
       /\ SessionOf(c) \in dirs
       /\ sessions[SessionOf(c)].status = Error
       /\ sessions[SessionOf(c)].error_message = Some("agent failed")

\* C9 as claimed: no reader observes status Error written for a pipeline
\* failure while the cleanup for that failure has not yet been attempted.
C9_CleanupBeforeError ==
    \A c \in Calls :
       (/\ Created(c)
        /\ sessions[SessionOf(c)].status = Error
        /\ lastWrite[SessionOf(c)] = "thread")
          => CleanupAttempted(c)

\* C9 amended: on the failure path the error is written to the registry
\* before the cleanup is attempted: whenever the thread is about to run or
\* has run the cleanup, it has already called set_error and the record
\* carries an error message.
C9_ErrorBeforeCleanup ==
    \A c \in Calls :
       (tpc[c] = "cleanup" \/ CleanupAttempted(c))
          => /\ Len(tlog[c]) >= 1
             /\ tlog[c][1] = "set_error"
             /\ sessions[SessionOf(c)].error_message # None

\* C9 witness: the record shows the pipeline's Error while the thread has
\* not yet attempted the cleanup and the working copy still exists.
C9_Witness ==
    \E c \in Calls :
       /\ tpc[c] = "cleanup"
       /\ ~CleanupAttempted(c)
       /\ SessionOf(c) \in dirs
       /\ sessions[SessionOf(c)].status = Error
       /\ lastWrite[SessionOf(c)] = "thread"

\* C10: at most one background thread is ever started for a session id; a
\* thread is started only by a call whose create_session succeeded; a call
\* whose create_session failed starts no thread, and a working copy exists
\* only for an id whose thread was started.
C10_OneThreadPerId ==
    /\ \A i \in Ids :
          Cardinality({c \in Calls : tpc[c] # "none" /\ cid[c] = Some(i)}) <= 1
    /\ \A c \in Calls :
          tpc[c] # "none" => (hpc[c] \in {"spawned", "ok"}
                              /\ SessionOf(c) \in DOMAIN sessions)
    /\ \A c \in Calls : hpc[c] = "err" => tpc[c] = "none"
    /\ \A i \in dirs :
          \E c \in Calls : cid[c] = Some(i) /\ tpc[c] # "none"

\* C10 witness: two calls drew the same id; the first owns the record, has
\* its thread and its working copy, the second failed in create_session and
\* has no thread.
C10_Witness ==
    \E c \in Calls, d \in Calls :
       /\ c # d
       /\ cid[c] = cid[d] /\ cid[c] # None
       /\ hpc[c] = "ok" /\ tpc[c] # "none" /\ SessionOf(c) \in dirs
       /\ hpc[d] = "err" /\ tpc[d] = "none"

(* ---------------- claims about the registry (SpecReg) ---------------- *)
\* the step is a call of `op`
OpStep(op) == ret'.tick # ret.tick /\ ret'.op = op

Range(f) == {f[x] : x \in DOMAIN f}

\* C12: create_session(id, ...) on a present id returns AlreadyExists and
\* leaves the whole registry as it was; on an absent id it inserts exactly
\* one record, Initializing, with pr_url, error_message and process_id
\* absent, leaves the others alone and returns the new record's info.
C12_CreateSession ==
    [][\A id \in Ids :
          (OpStep("create_session") /\ ret'.id = Some(id)) =>
             IF id \in DOMAIN reg
             THEN ret'.res = "AlreadyExists" /\ reg' = reg
             ELSE /\ ret'.res = "Ok"
                  /\ DOMAIN reg' = DOMAIN reg \cup {id}
                  /\ \A i \in DOMAIN reg : reg'[i] = reg[i]
                  /\ reg'[id].id = id
                  /\ reg'[id].status = Initializing
                  /\ reg'[id].pr_url = None
                  /\ reg'[id].error_message = None
                  /\ reg'[id].process_id = None
                  /\ ret'.value = Some(SessionInfo(reg'[id]))]_vars

\* C12 witness: create_session has just failed with AlreadyExists on an id
\* whose record had already moved on to Completed.
C12_Witness ==
    /\ ret.op = "create_session" /\ ret.res = "AlreadyExists"
    /\ reg[ret.id[1]].status = Completed
    /\ reg[ret.id[1]].pr_url # None

\* C13: on a present record, whatever its status, set_working(id, p) leaves
\* it Working with process_id p; set_completed(id, url) leaves it Completed
\* with pr_url url and no process_id; set_error(id, m) leaves it Error with
\* error_message m and no process_id.
C13_Transitions ==
    [][\A id \in DOMAIN reg :
          /\ (OpStep("set_working") /\ ret'.id = Some(id)) =>
                /\ ret'.res = "Ok"
                /\ reg'[id].status = Working
                /\ reg'[id].process_id = ret'.arg
          /\ (OpStep("set_completed") /\ ret'.id = Some(id)) =>
                /\ ret'.res = "Ok"
                /\ reg'[id].status = Completed
                /\ reg'[id].pr_url = ret'.arg
                /\ reg'[id].process_id = None
          /\ (OpStep("set_error") /\ ret'.id = Some(id)) =>
                /\ ret'.res = "Ok"
                /\ reg'[id].status = Error
                /\ reg'[id].error_message = ret'.arg
                /\ reg'[id].process_id = None]_vars

\* C13 witness: set_error has just acted on a record that had been
\* Completed before: its message is recorded and the status is Error.
C13_Witness ==
    /\ ret.op = "set_error" /\ ret.res = "Ok"
    /\ reg[ret.id[1]].status = Error
    /\ reg[ret.id[1]].error_message = ret.arg
    /\ reg[ret.id[1]].pr_url # None

KeyedOps ==
    {"get_session_info", "set_working", "set_completed", "set_error",
     "get_process_id", "get_work_dir", "get_branch_name", "remove_session"}

\* C14: each of the eight operations that take an id returns NotFound when
\* the id is absent, and then the registry is unchanged.
C14_NotFound ==
    [][\A id \in Ids : \A op \in KeyedOps :
          (OpStep(op) /\ ret'.id = Some(id) /\ id \notin DOMAIN reg) =>
             (ret'.res = "NotFound" /\ reg' = reg)]_vars

\* C14 witness: set_working was called for an absent id while another
\* record exists, and returned NotFound.
C14_Witness ==
    /\ ret.op = "set_working" /\ ret.res = "NotFound"
    /\ ret.id[1] \notin DOMAIN reg
    /\ DOMAIN reg # {}

\* C15: remove_session(id) on a present id returns the record and deletes
\* exactly it: afterwards get_session_info(id) is NotFound, no list_sessions
\* result holds id, and every other record is as before.
C15_Remove ==
    [][\A id \in DOMAIN reg :
          (OpStep("remove_session") /\ ret'.id = Some(id)) =>
             /\ ret'.res = "Ok"
             /\ ret'.value = Some(reg[id])
             /\ DOMAIN reg' = DOMAIN reg \ {id}
             /\ \A i \in DOMAIN reg' : reg'[i] = reg[i]
             /\ get_session_info(reg', id).res = "NotFound"
             /\ \A v \in list_sessions(reg') :
                   \A n \in DOMAIN v : v[n].id # id]_vars

\* C15 witness: remove_session has just returned a record and another
\* record is still in the registry.
C15_Witness ==
    /\ ret.op = "remove_session" /\ ret.res = "Ok"
    /\ ret.id[1] \notin DOMAIN reg
    /\ ret.value[1].id = ret.id[1]
    /\ DOMAIN reg # {}

\* C16: in every registry state, every result of get_active_sessions holds
\* exactly the list_sessions records whose status is Initializing or
\* Working, each once, and none that is Completed or Error.
C16_ActiveSessions ==
    /\ \A v \in get_active_sessions(reg) : \A l \in list_sessions(reg) :
          /\ Range(v) = {x \in Range(l) : x.status \in {Initializing, Working}}
          /\ \A a, b \in DOMAIN v : a # b => v[a] # v[b]
          /\ \A n \in DOMAIN v : v[n].status \notin {Completed, Error}
    /\ ret.op = "get_active_sessions" =>
          /\ Range(ret.value) =
                {SessionInfo(reg[i]) : i \in {j \in DOMAIN reg :
                    reg[j].status \in {Initializing, Working}}}
          /\ \A a, b \in DOMAIN ret.value : a # b => ret.value[a] # ret.value[b]

\* C16 witness: get_active_sessions returned exactly the Working record
\* while a Completed record is in the registry too.
C16_Witness ==
    /\ ret.op = "get_active_sessions"
    /\ Len(ret.value) = 1 /\ ret.value[1].status = Working
    /\ \E i \in DOMAIN reg : reg[i].status = Completed

\* C17: a record leaves the registry only in a remove_session step for its
\* id; after any other step it is still returned by get_session_info and by
\* list_sessions.
C17_NoExpiry ==
    [][\A id \in DOMAIN reg :
          \/ OpStep("remove_session") /\ ret'.id = Some(id)
          \/ /\ id \in DOMAIN reg'
             /\ get_session_info(reg', id).res = "Ok"
             /\ \A v \in list_sessions(reg') :
                   \E n \in DOMAIN v : v[n].id = id]_vars

\* C17 witness: a record has just been set to Error with the cancellation
\* message, it is still in the registry, and so is a Completed record.
C17_Witness ==
    /\ ret.op = "set_error" /\ ret.res = "Ok" /\ ret.arg = Some(CancelMessage)
    /\ ret.id[1] \in DOMAIN reg
    /\ \E i \in DOMAIN reg : i # ret.id[1] /\ reg[i].status = Completed

(* ---------------- claims about the registry mutex (SpecLock) ------------- *)
\* C11: the mutex is held only inside one registry operation: a thread that
\* is inside run_full_session does not hold it, whoever holds it is between
\* the lock() and the return of one registry method, and a get_session_info
\* or list_sessions call that waits for the mutex can always go on (the
\* mutex is free, or its holder can return), however many threads are
\* inside run_full_session.
C11_LockOnlyInsideOperation ==
    /\ \A u \in LockUsers : lock = Some(u) <=> lpc[u] = "locked"
    /\ \A t \in LockThreads : lpc[t] = "run_full_session" => lock # Some(t)
    /\ \A q \in LockQueries :
          lpc[q] = "lock" =>
             \/ ENABLED LockAcquireBy(q)
             \/ \E h \in LockUsers : lock = Some(h) /\ ENABLED LockReleaseBy(h)

\* C11 witness: every session thread is inside run_full_session and both
\* get_session_info and list_sessions have completed.
C11_Witness ==
    /\ \A t \in LockThreads : lpc[t] = "run_full_session"
    /\ \A q \in LockQueries : lpc[q] = "done"
    /\ lock = None

(* ---------------- claims about wait_for_process (SpecPipe) --------------- *)
\* C18: the drain of wait_for_process never deadlocks stdout against
\* stderr: as long as wait_for_process has been called and has not returned,
\* the child or the parent can take a step, whatever the child writes and
\* in whatever order.
C18_NoDeadlock ==
    wpc \notin {"none", "returned"} => ENABLED PipeNext

(* ---------------- claims about git_ops (SpecFs) ---------------- *)
FsStep(op) == fsret'.tick # fsret.tick /\ fsret'.op = op

\* C19: clone_to_temp(source, id) called while session-<id> exists returns
\* SessionExists and leaves every entry of the root, the existing working
\* copy with its content included, as it was.
C19_SessionExists ==
    [][\A id \in Ids :
          (/\ FsStep("clone_to_temp")
           /\ fsret'.arg = Some(id)
           /\ SessionName(id) \in DOMAIN entries) =>
             (fsret'.res = "SessionExists" /\ entries' = entries)]_vars

\* C19 witness: clone_to_temp has just returned SessionExists for a working
\* copy whose content differs from the source's.
C19_Witness ==
    /\ fsret.op = "clone_to_temp" /\ fsret.res = "SessionExists"
    /\ SessionName(fsret.arg[1]) \in DOMAIN entries
    /\ entries[SessionName(fsret.arg[1])].kind = "dir"
    /\ entries[SessionName(fsret.arg[1])].content = {"old.txt"}

Prefixed(es) == {n \in DOMAIN es : StartsWith(n, SessionPrefix)}

PrefixedDirs(es) == {n \in Prefixed(es) : es[n].kind = "dir"}

C22_CleanupIdempotent ==
    [][\A name \in FsNames :
          (/\ FsStep("cleanup_session") \/ FsStep("cleanup_session_dir")
           /\ fsret'.arg = Some(name)) =>
             /\ name \notin DOMAIN entries =>
                   (fsret'.res = "Ok" /\ entries' = entries)
             /\ fsret'.res = "Ok" =>
                   /\ entries' = Without(entries, {name})
                   /\ cleanup_session_dir(entries', name) =
                         {[res |-> "Ok", entries |-> entries']}]_vars

\* C22 witness: cleanup_session_dir has just removed an existing directory
\* and returned Ok, with other entries still in the root.
C22_Witness ==
    /\ fsret.op = "cleanup_session_dir" /\ fsret.res = "Ok"
    /\ fsret.value = Some(TRUE)
    /\ fsret.arg[1] \notin DOMAIN entries
    /\ DOMAIN entries # {}

(* ---------------- claims about the application start (SpecApp) ----------- *)
\* C21: cleanup_orphaned_sessions runs only while no session is registered,
\* and it removes the working copy of no session that is Initializing or
\* Working.
C21_SweepBeforeAnySession ==
    [][FsStep("cleanup_orphaned_sessions") =>
          /\ \A b \in Apps : DOMAIN areg[b] = {}
          /\ \A b \in Apps : \A id \in ActiveIn(areg[b]) :
                SessionName(id) \in DOMAIN entries =>
                   SessionName(id) \in DOMAIN entries']_vars

(* ---------------- claims about generate_branch_name (SpecBranch) --------- *)
\* C23: any two sessions have different working directories and different
\* generated branch names, also when they have the same instructions and
\* start close together.
C23_SessionsShareNothing ==
    \A i, j \in 1..Len(bcalls) :
       (i # j /\ bcalls[i].id # None /\ bcalls[j].id # None) =>
          /\ bcalls[i].work_dir # bcalls[j].work_dir
          /\ bcalls[i].name # bcalls[j].name

\* C24: two calls of generate_branch_name with the same description at two
\* different instants return different names.
C24_DifferentInstantsDifferentNames ==
    \A i, j \in 1..Len(bcalls) :
       bcalls[i].at # bcalls[j].at => bcalls[i].name # bcalls[j].name

\* the part of a returned name between the prefix and the last '-'
NameSlug(name) ==
    LET k == CHOOSE i \in 1..Len(name) :
                name[i] = "-" /\ \A j \in (i + 1)..Len(name) : name[j] # "-"
    IN SubSeq(name, Len(BranchPrefix) + 1, k - 1)

\* name is claude/<slug>-<seconds of `at`>
NameShape(name, at) ==
    name = BranchPrefix \o NameSlug(name) \o <<"-">> \o Decimal(AsSecs(at))

LowerAlnum == {"a", "z", "7"}

\* at most 30 characters, lowercase alphanumerics and '-' only, no two
\* adjacent '-', no leading '-'
SlugBody(slug) ==
    /\ Len(slug) <= SlugMax
    /\ \A i \in 1..Len(slug) : slug[i] \in LowerAlnum \cup {"-"}
    /\ \A i \in 1..(Len(slug) - 1) : ~(slug[i] = "-" /\ slug[i + 1] = "-")
    /\ slug # <<>> => slug[1] # "-"

\* C25: every returned name is claude/<slug>-<timestamp>, the slug at most
\* 30 characters of lowercase alphanumerics and '-', without two adjacent
\* '-', and neither starting nor ending with '-'.
C25_SlugNeverEndsWithSeparator ==
    \A n \in 1..Len(bcalls) :
       /\ NameShape(bcalls[n].name, bcalls[n].at)
       /\ SlugBody(NameSlug(bcalls[n].name))
       /\ NameSlug(bcalls[n].name) # <<>> =>
             NameSlug(bcalls[n].name)[Len(NameSlug(bcalls[n].name))] # "-"

\* C25 as the code has it: every returned name is claude/<slug>-<timestamp>,
\* the slug at most 30 characters of lowercase alphanumerics and '-',
\* without two adjacent '-' and not starting with '-'; it ends with '-' only
\* when it is exactly 30 characters long, cut by the truncation right after
\* a separator.
C25_SlugShape ==
    \A n \in 1..Len(bcalls) :
       LET slug == NameSlug(bcalls[n].name)
       IN /\ NameShape(bcalls[n].name, bcalls[n].at)
          /\ SlugBody(slug)
          /\ (slug # <<>> /\ slug[Len(slug)] = "-") =>
                (Len(slug) = SlugMax /\ Len(bdesc) > SlugMax)

\* C25 witness: a name was returned whose slug is 30 characters long and
\* ends with the separator the truncation stopped at.
C25_Witness ==
    \E n \in 1..Len(bcalls) :
       /\ Len(NameSlug(bcalls[n].name)) = SlugMax
       /\ NameSlug(bcalls[n].name)[SlugMax] = "-"
       /\ NameSlug(bcalls[n].name)[SlugMax - 1] = "a"

(* ---------------- claims about compose_instructions (SpecCompose) -------- *)
\* an optional input that is present and not blank
Given(opt) == opt # None /\ \E i \in 1..Len(opt[1]) : opt[1][i] \notin WhiteSpace

Occurrences(str, token) == Cardinality({i \in 1..Len(str) : str[i] = token})

\* C26: every result is the base text, then the Additional Instructions
\* section iff the additional input is present and not blank, then the
\* Instructions from File section iff the file content is present and not
\* blank, then the guidelines block; a missing, empty or white-space input
\* adds no header; two calls on the same inputs return the same.
C26_ComposeOrder ==
    \A n \in 1..Len(cout) :
       /\ cout[n] =
             cin.user
             \o (IF Given(cin.additional)
                 THEN HeaderAdditional \o cin.additional[1] ELSE <<>>)
             \o (IF Given(cin.file)
                 THEN HeaderFile \o cin.file[1] ELSE <<>>)
             \o Guidelines
       /\ Occurrences(cout[n], "## Additional Instructions") =
             (IF Given(cin.additional) THEN 1 ELSE 0)
       /\ Occurrences(cout[n], "## Instructions from File") =
             (IF Given(cin.file) THEN 1 ELSE 0)
       /\ Occurrences(cout[n], "## Important Guidelines") = 1
       /\ cout[n] = cout[1]

\* C26 witness: two calls were made with a white-space-only additional
\* input and a non-blank file content; the result has the file section and
\* no Additional Instructions header.
C26_Witness ==
    /\ Len(cout) = 2
    /\ cin.additional = Some(<<" ", "\n">>)
    /\ cin.file = Some(<<"x", " ">>)
    /\ Occurrences(cout[2], "## Instructions from File") = 1
    /\ Occurrences(cout[2], "## Additional Instructions") = 0

(* ---------------- claims about parse_github_remote (SpecParse) ----------- *)
\* the two accepted grammars, for a host made of `sub` and github.com
SshUrl(sub, owner, repo, suffix) ==
    <<"git@">> \o sub \o <<"github.com", ":", owner, "/", repo>> \o suffix

HttpsUrl(sub, owner, repo, suffix) ==
    <<"https://">> \o sub \o <<"github.com", "/", owner, "/", repo>> \o suffix

Accepted(url, owner, repo) ==
    \E sub \in {<<>>, <<"work.">>}, suffix \in {<<>>, <<".git">>} :
       url \in {SshUrl(sub, owner, repo, suffix),
                HttpsUrl(sub, owner, repo, suffix)}

\* C27: a URL of either grammar, git@<host>:<owner>/<repo>[.git] or
\* https://<host>/<owner>/<repo>[.git], whose host contains github.com
\* (github.com itself or work.github.com) is parsed to that owner and that
\* repo.
C27_BothGrammarsAnyGithubHost ==
    pres # None =>
       \A owner \in Names, repo \in Names :
          Accepted(Trim(purl), owner, repo) =>
             pres[1] = [res |-> "Ok", owner |-> <<owner>>, repo |-> <<repo>>]

\* C28: every URL that is not exactly of one of the two shapes (owner or
\* repo missing or empty, further path segments, a host without github.com)
\* is rejected with the parse error.
C28_OtherShapesRejected ==
    pres # None =>
       ((\A owner \in Names, repo \in Names :
            ~Accepted(Trim(purl), owner, repo))
        => pres[1].res = "GitError")

(* ---------------- claims about the access token (SpecToken) -------------- *)
\* the non-empty tokens the three sources provide, in the order of the search
Provided(in) ==
    LET file == IF in.file # None /\ in.file[1] # <<>>
                THEN <<in.file[1]>> ELSE <<>>
        gh == IF in.gh # None /\ Trim(in.gh[1]) # <<>>
              THEN <<Trim(in.gh[1])>> ELSE <<>>
        env == IF in.env # None /\ in.env[1] # <<>>
               THEN <<in.env[1]>> ELSE <<>>
    IN file \o gh \o env

\* C29: get_github_token returns the first non-empty token in the order
\* credentials file, gh CLI, GITHUB_TOKEN; when no source provides a
\* non-empty token it returns AuthError and create_pull_request sends no
\* request.
C29_FirstNonEmptyTokenOrAuthError ==
    /\ ttok # None =>
          ttok[1] = IF Provided(tin) # <<>>
                    THEN OkToken(Head(Provided(tin)))
                    ELSE AuthError
    /\ (tout # None /\ Provided(tin) = <<>>) => tsent = <<>>

(* ---------------- claims about commit_and_push (SpecCommit) -------------- *)
\* the steps run so far are the first steps of stage, commit, head, push
InStepOrder ==
    /\ Len(glog) <= Len(GitSteps)
    /\ glog = SubSeq(GitSteps, 1, Len(glog))

\* the steps run so far that fail
FailedSteps == {i \in 1..Len(glog) : glog[i] \in gin.fail}

\* C30: commit_and_push runs stage, commit, head, push in this order, each
\* at most once; a step that fails is the last step run and its error is the
\* result (no commit after a failed stage, no push after a failed commit);
\* the result is Ok only after all four steps succeeded.
C30_StopsAtFirstFailure ==
    /\ InStepOrder
    /\ \A i \in FailedSteps :
          /\ i = Len(glog)
          /\ gres = Some(GitErr(glog[i]))
    /\ ("stage" \in gin.fail /\ gpc # "idle") => grepo.commits = 0
    /\ ("commit" \in gin.fail /\ gpc # "idle") => grepo.pushed = 0
    /\ (gres # None /\ FailedSteps = {}) =>
          (glog = GitSteps /\ gres = Some(GitOk))
    /\ (gres = None) => gpc # "done"

\* commit failed after a successful stage: the call has returned the
\* commit's error and neither head nor push was run
C30_Witness ==
    /\ gres = Some(GitErr("commit"))
    /\ glog = <<"stage", "commit">>
    /\ gin.fail = {"commit", "push"}
    /\ grepo.pushed = 0

(* ---------------- claims about the record files (SpecPersist) ------------ *)
\* C31: load_session_info(id) after a successful save_session_info(info)
\* with info.id = id returns Some(info), equal in every field;
\* load_session_info of an id never saved returns Ok(None).
C31_RoundTrip ==
    (pret.op = "load_session_info" /\ pin.dir_ok) =>
       /\ pret.res = "Ok"
       /\ pret.value = IF pfiles[session_file_path(pret.id)] # None
                       THEN Some(pin.info)
                       ELSE None

\* a SessionInfo with a quote and a backslash in pr_url, an absent
\* error_message and status Completed was saved and read back
C31_Witness ==
    /\ pret.op = "load_session_info"
    /\ pret.res = "Ok"
    /\ pret.value # None
    /\ pret.value[1].pr_url = Some(<<"\\", "\"">>)
    /\ pret.value[1].error_message = None
    /\ pret.value[1].status = Completed
    /\ pret.value[1].created_at = 120

\* an id never saved was looked up while another id's file exists
C31_WitnessAbsent ==
    /\ pret.op = "load_session_info"
    /\ pret.value = None
    /\ pret.res = "Ok"
    /\ pret.id # pin.info.id
    /\ pfiles[session_file_path(pin.info.id)] # None

(* ---------------- claims about LockError (SpecLockFair) ------------------ *)
\* the step in which user u's operation returns LockError
LockErrorStep(u) == lpc[u] = "lock" /\ lpc'[u] = "LockError"

C32_WitnessContention ==
    /\ ~lpoison
    /\ \E t \in LockThreads : lock = Some(t)
    /\ \E q \in LockQueries : lpc[q] = "lock"

(* ---------------- claims about the stored branch name (Spec) ------------- *)
\* the feature branch the pipeline of call c creates in step 3: a name
\* generate_branch_name returns
FeatureBranches == {generate_branch_name(d, BranchEpoch) : d \in Descriptions}

\* the pipeline of call c is past step 3
BranchCreated(c) ==
    tpc[c] \in {"agent", "wait", "publish", "set_completed"}

\* C33: once the pipeline of a session has created its feature branch,
\* get_branch_name(id) returns the name of that branch, a name
\* generate_branch_name returns.
C33_StoredBranchIsFeatureBranch ==
    \A c \in Calls :
       (BranchCreated(c) /\ cid[c][1] \in DOMAIN sessions) =>
          /\ get_branch_name(sessions, cid[c][1]).res = "Ok"
          /\ get_branch_name(sessions, cid[c][1]).value[1] \in FeatureBranches

(* ---------------- claims about the setters' frame (SpecReg) -------------- *)
SetterOps == {"set_working", "set_completed", "set_error"}

\* the fields of a record no setter writes
Creation(s) ==
    [id |-> s.id, git_directory |-> s.git_directory,
     instructions |-> s.instructions, created_at |-> s.created_at,
     work_dir |-> s.work_dir, branch_name |-> s.branch_name]

\* C34: set_working, set_completed and set_error on id X keep the ids of
\* the registry, keep id, git_directory, instructions, created_at, work_dir
\* and branch_name of X, and keep every other record as it was.
C34_SettersFrame ==
    [][\A op \in SetterOps :
          OpStep(op) =>
             /\ DOMAIN reg' = DOMAIN reg
             /\ \A i \in DOMAIN reg :
                   IF ret'.id = Some(i)
                   THEN Creation(reg'[i]) = Creation(reg[i])
                   ELSE reg'[i] = reg[i]]_vars

\* set_working has just acted on a record created at an earlier time, while
\* another record is Completed
C34_Witness ==
    /\ ret.op = "set_working" /\ ret.res = "Ok"
    /\ reg[ret.id[1]].created_at # clock
    /\ reg[ret.id[1]].status = Working
    /\ \E i \in DOMAIN reg : i # ret.id[1] /\ reg[i].status = Completed

(* ---------------- claims about cancel_session (Spec) --------------------- *)
\* C35: once cancel_session(id) has returned Ok, no later step gives the
\* session the status Completed.
C35_NoCompletedAfterCancel ==
    [][\A k \in Cancels :
          (kpc[k] = "ok" /\ kid[k][1] \in DOMAIN sessions
              /\ kid[k][1] \in DOMAIN sessions'
              /\ sessions[kid[k][1]].status # Completed)
          => sessions'[kid[k][1]].status # Completed]_vars

\* no cancel_session call is between its first and its last step
NoCancelRunning == \A k \in Cancels : kpc[k] \in {"idle", "ok", "err"}

\* C36: when the session's thread has finished and no cancel_session call
\* is in progress, a session with status Error has no working copy
\* session-<id> on disk.
C36_ErrorHasNoWorkingCopy ==
    \A c \in Calls :
       (tpc[c] = "done" /\ NoCancelRunning
           /\ cid[c][1] \in DOMAIN sessions
           /\ sessions[cid[c][1]].status = Error)
       => cid[c][1] \notin dirs

\* C37: cancel_session with an id that is not in the registry fails with
\* NotFound in its first step and has no side effect: no process is killed,
\* no directory is removed, no record is created or changed, and the call
\* takes no further step.
C37_CancelUnknownId ==
    [][\A k \in Cancels :
          /\ (kpc[k] = "idle" /\ kpc'[k] # "idle"
                 /\ kid'[k][1] \notin DOMAIN sessions)
             => /\ kpc'[k] = "err"
                /\ get_process_id(sessions, kid'[k][1]).res = "NotFound"
                /\ sessions' = sessions
                /\ dirs' = dirs
                /\ killed' = killed
                /\ agent' = agent
                /\ appAlive' = appAlive
          /\ kpc[k] = "err" => kpc'[k] = "err"]_vars

\* cancel_session was called with an id that is not in the registry while
\* another session is Working with its agent running and its working copy
\* on disk: the call failed and all of them are still there
C37_Witness ==
    \E k \in Cancels :
       /\ kpc[k] = "err"
       /\ kid[k][1] \notin DOMAIN sessions
       /\ killed = {}
       /\ \E c \in Calls :
             /\ agent[c] = "running"
             /\ SessionOf(c) \in dirs
             /\ sessions[SessionOf(c)].status = Working

====
